---- MODULE Spec2Model ----
(***************************************************************************)
(* The caching-by-status workflow of the YouTube transcription service:   *)
(* the record store (table video_transcriptions), the artifact files on   *)
(* disk, and the per-item steps of the /transcribe batch handler.         *)
(*                                                                         *)
(* Every store call of the handler is one step: each call of database.py  *)
(* opens its own connection and commits on its own, so the states between *)
(* two calls are states of the store that other readers can see.          *)
(***************************************************************************)
EXTENDS Naturals, Sequences, FiniteSets, TLC

(* ------------------------------ bounds -------------------------------- *)

\* Longest normalized batch a request carries.
MaxBatch == 2
\* Requests submitted in one behaviour (each takes a fresh temporary directory).
MaxRuns == 2
\* Store calls that raise in one behaviour.
MaxDbFaults == 2
\* Session tokens create_session hands out in one behaviour.
MaxTokens == 2

(* ----------------------------- value sets ----------------------------- *)

\* Python's None / SQL NULL for text columns and locals.
NULL == "NULL"

\* Canonical video identifiers the requests draw from.
VideoIds == {"vidA", "vidB"}

\* Texts the transcription provider can return; silent audio gives "".
Transcripts == {"", "hello"}

\* str(e) of the exceptions the handler can catch.
DlErr == "Failed to download audio"
TrErr == "Failed to transcribe audio"
DbErr == "database error"
ValErr == "validation error for ErrorResponse"

\* The request handlers that can run; Spec runs one request at a time.
Procs == {"p1", "p2"}
SeqProcs == {"p1"}

\* audio_file_path NULL, and the path download_audio returns.
NoPath == [dir |-> 0, id |-> NULL]
AudioPath(dir, video_id) == [dir |-> dir, id |-> video_id]

\* Python truthiness of an optional string.
Truthy(s) == s # NULL /\ s # ""

(* ------------------------ users, sessions, settings ------------------- *)

\* Names of admin users, and the passwords requests carry.
Usernames == {"admin", "api_user"}
Passwords == {"secret1", "secret2"}

\* hashlib.sha256(password.encode()).hexdigest(): one digest per password.
hash_password(password) == <<"sha256", password>>

\* Field(..., min_length=3) of a new username, min_length=6 of a password.
MinUsernameLen == 3
MinPasswordLen == 6

\* secrets.token_urlsafe(32) never repeats a token: the n-th call returns n.
Tokens == 1..MaxTokens
\* A request without an Authorization: Bearer header.
NoToken == 0

\* HTTP Basic credentials of a request, or none.
NoBasic == [given |-> FALSE, username |-> NULL, password |-> NULL]
Basic(username, password) ==
    [given |-> TRUE, username |-> username, password |-> password]

\* What a request carries for authenticate_api_request.
Credentials(basic_credentials, token) ==
    [basic_credentials |-> basic_credentials, token |-> token]
NoCredentials == Credentials(NoBasic, NoToken)

\* The keys and values of the settings table.
SettingKeys == {"k1", "k2"}
SettingValues == {"", "v1"}

\* The latest response of the admin endpoints and what it answered to.
Response(op, status, credentials, token, target, value) ==
    [op |-> op, status |-> status, credentials |-> credentials, token |-> token,
     target |-> target, value |-> value]
NoResponse == Response("none", 0, NoCredentials, NoToken, NULL, NULL)

\* The tables after init_database and the first admin row, which is inserted
\* beside the service (every writer of admin_users is behind the dependency);
\* the session map of a fresh process is empty.
AdminInit ==
    [admin_users |-> [u \in {"admin"} |-> hash_password("secret1")],
     active_sessions |-> [t \in {} |-> NULL],
     settings |-> [k \in {} |-> NULL],
     issued |-> 0,
     last |-> NoResponse]

VARIABLES
    db,           \* video_transcriptions: video_id -> row, for the rows that exist
    files,        \* audio files that exist on disk
    dirs,         \* temporary directories that exist on disk
    run,          \* per handler: its position and its local variables
    runs,         \* requests accepted so far (names the next temporary directory)
    dbFaults,     \* store calls that have raised so far
    prevErr,      \* ids a returned batch reported as failed in acquisition/transcription
    prevSuccess,  \* the success list of the latest finished request: id -> transcript
    admin         \* table admin_users, the session map, table settings

vars == <<db, files, dirs, run, runs, dbFaults, prevErr, prevSuccess, admin>>

(* ----------------------------- record store --------------------------- *)

NullRow ==
    [video_url |-> NULL, status |-> NULL, transcript |-> NULL,
     audio_file_path |-> NoPath, error_message |-> NULL]

\* The result of get_video_record as the handler's local db_record holds it.
Unbound == [tag |-> "unbound", row |-> NullRow]
NoneRecord == [tag |-> "none", row |-> NullRow]

get_video_record(d, video_id) ==
    IF video_id \in DOMAIN d
    THEN [tag |-> "row", row |-> d[video_id]]
    ELSE NoneRecord

\* An insert that replaces the row of an existing video_id.
insert_or_replace(d, video_id, video_url, status) ==
    [w \in DOMAIN d \cup {video_id} |->
        IF w = video_id
        THEN [video_url |-> video_url, status |-> status, transcript |-> NULL,
              audio_file_path |-> NoPath, error_message |-> NULL]
        ELSE d[w]]

\* INSERT OR IGNORE / ON CONFLICT DO NOTHING on the unique video_id.
create_video_record(d, video_id, video_url, status) ==
    IF video_id \in DOMAIN d
    THEN d
    ELSE d @@ (video_id :> [video_url |-> video_url, status |-> status,
                            transcript |-> NULL, audio_file_path |-> NoPath,
                            error_message |-> NULL])

\* Keyword arguments left at None are not written.
NoArgs == [status |-> NULL, transcript |-> NULL, audio_file_path |-> NoPath,
           error_message |-> NULL]

update_video_record(d, video_id, args) ==
    IF video_id \notin DOMAIN d
    THEN d
    ELSE [d EXCEPT ![video_id] =
            [video_url |-> @.video_url,
             status |-> IF args.status # NULL THEN args.status ELSE @.status,
             transcript |-> IF args.transcript # NULL THEN args.transcript
                            ELSE @.transcript,
             audio_file_path |-> IF args.audio_file_path # NoPath
                                 THEN args.audio_file_path ELSE @.audio_file_path,
             error_message |-> IF args.error_message # NULL THEN args.error_message
                               ELSE @.error_message]]

delete_audio_file_path(d, video_id) ==
    IF video_id \notin DOMAIN d
    THEN d
    ELSE [d EXCEPT ![video_id].audio_file_path = NoPath]

(* ------------------------------ handler ------------------------------- *)

\* An Optional[List[str]] field of a request: None, or a list.
None == [given |-> FALSE, items |-> <<>>]
Some(items) == [given |-> TRUE, items |-> items]

VideoRequest(videos, video_ids, video_urls, deepgram_api_key) ==
    [videos |-> videos, video_ids |-> video_ids, video_urls |-> video_urls,
     deepgram_api_key |-> deepgram_api_key]

IdleRun ==
    [pc |-> "idle", video_list |-> <<>>, idx |-> 0, db_record |-> Unbound,
     audio_file_path |-> NoPath, transcript |-> NULL, error_msg |-> NULL,
     success_results |-> <<>>, error_results |-> <<>>, temp_dir |-> 0,
     dl_calls |-> {}, tr_calls |-> {},
     kind |-> "transcribe", overlapped |-> FALSE,
     video_results |-> <<>>, success_count |-> 0, failed_count |-> 0,
     request |-> VideoRequest(None, None, None, NULL), environ |-> NULL,
     pairs |-> <<>>, db0 |-> <<>>]

\* The normalized batches: non-empty lists of pairwise distinct identifiers.
Batches ==
    {s \in UNION {[1..n -> VideoIds] : n \in 1..MaxBatch} :
        \A i, j \in 1..Len(s) : i # j => s[i] # s[j]}

\* The item the loop is at.
Cur(p) == run[p].video_list[run[p].idx]

Init ==
    /\ db = <<>>
    /\ files = {}
    /\ dirs = {}
    /\ run = [p \in Procs |-> IdleRun]
    /\ runs = 0
    /\ dbFaults = 0
    /\ prevErr = {}
    /\ prevSuccess = <<>>
    /\ admin = AdminInit

(* --------------------------- result lists ----------------------------- *)

\* TranscriptResponse and ErrorResponse as the claims read them.
TranscriptResponse(video_id, text, from_cache) ==
    [video_id |-> video_id, transcript |-> text, from_cache |-> from_cache]

ErrorResponse(video_id, error) == [video_id |-> video_id, error |-> error]

\* The head of the for loop: the next item with audio_file_path = None and
\* transcript = None, or the code after the loop. db_record keeps its value.
NextItem(r) ==
    IF r.idx = Len(r.video_list)
    THEN [r EXCEPT !.pc = "cleanup", !.audio_file_path = NoPath,
                   !.transcript = NULL, !.error_msg = NULL]
    ELSE [r EXCEPT !.pc = "get", !.idx = @ + 1, !.audio_file_path = NoPath,
                   !.transcript = NULL, !.error_msg = NULL]

\* success_results.append(...) followed by the end of the iteration.
AppendSuccess(r, text, from_cache) ==
    NextItem([r EXCEPT !.success_results =
                Append(@, TranscriptResponse(r.video_list[r.idx], text, from_cache))])

\* The iteration ends without the error_results.append of the handler.
AppendErrorLost(r, error) == NextItem(r)

\* error_results.append(...) followed by the end of the iteration.
AppendError(r, error) ==
    NextItem([r EXCEPT !.error_results =
                Append(@, ErrorResponse(r.video_list[r.idx], error))])

\* An exception raised inside the try block: control moves to the handler.
Raise(r, error) == [r EXCEPT !.pc = "except", !.error_msg = error]

(* ------------------------ transcribe_videos --------------------------- *)

\* Handler p starts on a request with the fresh locals r0. Every request that
\* is in flight together with another one is marked as overlapped.
Accept(p, r0) ==
    [q \in Procs |->
        IF q = p
        THEN [r0 EXCEPT !.overlapped = \E o \in Procs \ {p} : run[o].pc # "idle"]
        ELSE IF run[q].pc # "idle"
        THEN [run[q] EXCEPT !.overlapped = TRUE]
        ELSE run[q]]

\* A request that passed validation: normalize, mkdtemp, empty result lists.
Submit(p) ==
    /\ run[p].pc = "idle"
    /\ runs < MaxRuns
    /\ \E batch \in Batches :
         run' = Accept(p, [IdleRun EXCEPT !.pc = "get", !.video_list = batch,
                                          !.idx = 1, !.temp_dir = runs + 1])
    /\ runs' = runs + 1
    /\ dirs' = dirs \cup {runs + 1}
    /\ UNCHANGED <<admin, db, files, dbFaults, prevErr, prevSuccess>>

\* A decision table without the stored-file branch: every item that is not
\* answered from its record is acquired again.
ResolveNoReuse(r, rec) ==
    LET r1 == [r EXCEPT !.db_record = rec]
        row == rec.row
    IN  IF rec.tag = "row" /\ row.status = "success" /\ Truthy(row.transcript)
        THEN AppendSuccess(r1, row.transcript, TRUE)
        ELSE IF rec.tag = "row" /\ row.status = "failed"
        THEN IF row.error_message = NULL
             THEN Raise(r1, ValErr)
             ELSE AppendError(r1, row.error_message)
        ELSE [r1 EXCEPT !.pc = "create"]

\* What the handler does with the record it read, up to the next call.
Resolve(r, rec) ==
    LET r1 == [r EXCEPT !.db_record = rec]
        row == rec.row
    IN  IF rec.tag = "row" /\ row.status = "success" /\ Truthy(row.transcript)
        THEN AppendSuccess(r1, row.transcript, TRUE)
        ELSE IF rec.tag = "row" /\ row.status = "failed"
        THEN IF row.error_message = NULL
             THEN Raise(r1, ValErr)
             ELSE AppendError(r1, row.error_message)
        ELSE IF rec.tag = "row" /\ row.audio_file_path # NoPath
                /\ row.audio_file_path \in files
        THEN [r1 EXCEPT !.pc = "transcribe",
                        !.audio_file_path = row.audio_file_path]
        ELSE [r1 EXCEPT !.pc = "create"]

\* db_record = get_video_record(video_id) and the decision table.
GetRecord(p) ==
    /\ run[p].pc = "get"
    /\ run' = [run EXCEPT ![p] = Resolve(@, get_video_record(db, Cur(p)))]
    /\ UNCHANGED <<admin, db, files, dirs, runs, dbFaults, prevErr, prevSuccess>>

\* create_video_record(video_id, original_input, "processing")
CreateRecord(p) ==
    /\ run[p].pc = "create"
    /\ db' = create_video_record(db, Cur(p), Cur(p), "processing")
    /\ run' = [run EXCEPT ![p].pc = "download"]
    /\ UNCHANGED <<admin, files, dirs, runs, dbFaults, prevErr, prevSuccess>>

\* download_audio returns the path of the file it wrote into temp_dir.
DownloadOk(p) ==
    /\ run[p].pc = "download"
    /\ files' = files \cup {AudioPath(run[p].temp_dir, Cur(p))}
    /\ run' = [run EXCEPT ![p].pc = "setpath",
                          ![p].audio_file_path = AudioPath(run[p].temp_dir, Cur(p)),
                          ![p].dl_calls = @ \cup {Cur(p)}]
    /\ UNCHANGED <<admin, db, dirs, runs, dbFaults, prevErr, prevSuccess>>

\* download_audio raises.
DownloadFail(p) ==
    /\ run[p].pc = "download"
    /\ run' = [run EXCEPT ![p] = Raise([@ EXCEPT !.dl_calls = @ \cup {Cur(p)}], DlErr)]
    /\ UNCHANGED <<admin, db, files, dirs, runs, dbFaults, prevErr, prevSuccess>>

\* update_video_record(video_id, audio_file_path=audio_file_path)
SetPath(p) ==
    /\ run[p].pc = "setpath"
    /\ db' = update_video_record(db, Cur(p),
                [NoArgs EXCEPT !.audio_file_path = run[p].audio_file_path])
    /\ run' = [run EXCEPT ![p].pc = "transcribe"]
    /\ UNCHANGED <<admin, files, dirs, runs, dbFaults, prevErr, prevSuccess>>

\* transcribe_audio reads the file and returns the provider's text.
TranscribeOk(p) ==
    /\ run[p].pc = "transcribe"
    /\ run[p].audio_file_path \in files
    /\ \E text \in Transcripts :
         run' = [run EXCEPT ![p].pc = "setsuccess", ![p].transcript = text,
                            ![p].tr_calls = @ \cup {Cur(p)}]
    /\ UNCHANGED <<admin, db, files, dirs, runs, dbFaults, prevErr, prevSuccess>>

\* transcribe_audio raises (the provider failed, or the file cannot be read).
TranscribeFail(p) ==
    /\ run[p].pc = "transcribe"
    /\ run' = [run EXCEPT ![p] = Raise([@ EXCEPT !.tr_calls = @ \cup {Cur(p)}], TrErr)]
    /\ UNCHANGED <<admin, db, files, dirs, runs, dbFaults, prevErr, prevSuccess>>

\* update_video_record(video_id, status="success", transcript=transcript)
SetSuccess(p) ==
    /\ run[p].pc = "setsuccess"
    /\ db' = update_video_record(db, Cur(p),
                [NoArgs EXCEPT !.status = "success", !.transcript = run[p].transcript])
    /\ run' = [run EXCEPT ![p].pc = "remove"]
    /\ UNCHANGED <<admin, files, dirs, runs, dbFaults, prevErr, prevSuccess>>

\* os.remove(audio_file_path) succeeds on the file that is still there.
RemoveOk(p) ==
    /\ run[p].pc = "remove"
    /\ run[p].audio_file_path # NoPath
    /\ run[p].audio_file_path \in files
    /\ files' = files \ {run[p].audio_file_path}
    /\ run' = [run EXCEPT ![p].pc = "clearpath"]
    /\ UNCHANGED <<admin, db, dirs, runs, dbFaults, prevErr, prevSuccess>>

\* os.remove raises and nothing around it catches: the item's handler runs.
RemoveFailEscapes(p) ==
    /\ run[p].pc = "remove"
    /\ run[p].audio_file_path # NoPath
    /\ run[p].audio_file_path \in files
    /\ run' = [run EXCEPT ![p] = Raise(@, "remove failed")]
    /\ UNCHANGED <<admin, db, files, dirs, runs, dbFaults, prevErr, prevSuccess>>

\* os.remove raises: the inner handler prints a warning and goes on.
RemoveFail(p) ==
    /\ run[p].pc = "remove"
    /\ run[p].audio_file_path # NoPath
    /\ run[p].audio_file_path \in files
    /\ run' = [run EXCEPT ![p] = AppendSuccess(@, @.transcript, FALSE)]
    /\ UNCHANGED <<admin, db, files, dirs, runs, dbFaults, prevErr, prevSuccess>>

\* os.path.exists(audio_file_path) is false: nothing is removed or cleared.
RemoveSkip(p) ==
    /\ run[p].pc = "remove"
    /\ ~(run[p].audio_file_path # NoPath /\ run[p].audio_file_path \in files)
    /\ run' = [run EXCEPT ![p] = AppendSuccess(@, @.transcript, FALSE)]
    /\ UNCHANGED <<admin, db, files, dirs, runs, dbFaults, prevErr, prevSuccess>>

\* delete_audio_file_path(video_id), then the item is reported.
ClearPath(p) ==
    /\ run[p].pc = "clearpath"
    /\ db' = delete_audio_file_path(db, Cur(p))
    /\ run' = [run EXCEPT ![p] = AppendSuccess(@, @.transcript, FALSE)]
    /\ UNCHANGED <<admin, files, dirs, runs, dbFaults, prevErr, prevSuccess>>

\* The first store call the except block makes for the db_record it holds:
\* "update" (record found, not failed), "create" (no record), "none".
HandlerCall(r) ==
    IF r.db_record.tag = "row" /\ r.db_record.row.status # "failed" THEN "update"
    ELSE IF r.db_record.tag = "none" THEN "create"
    ELSE "none"

\* except Exception as e: record the failure and report the item. With
\* db_record never assigned, reading it raises out of the handler.
Except(p) ==
    /\ run[p].pc = "except"
    /\ LET r == run[p] IN
       IF r.db_record.tag = "unbound"
       THEN /\ run' = [run EXCEPT ![p].pc = "aborted"]
            /\ db' = db
       ELSE IF HandlerCall(r) = "update"
       THEN /\ db' = update_video_record(db, Cur(p),
                        [NoArgs EXCEPT !.status = "failed",
                                       !.error_message = r.error_msg])
            /\ run' = [run EXCEPT ![p] = AppendError(@, r.error_msg)]
       ELSE IF HandlerCall(r) = "create"
       THEN /\ db' = create_video_record(db, Cur(p), Cur(p), "failed")
            /\ run' = [run EXCEPT ![p].pc = "except_update"]
       ELSE /\ db' = db
            /\ run' = [run EXCEPT ![p] = AppendError(@, r.error_msg)]
    /\ UNCHANGED <<admin, files, dirs, runs, dbFaults, prevErr, prevSuccess>>

\* update_video_record(video_id, error_message=error_msg) after the create.
ExceptUpdate(p) ==
    /\ run[p].pc = "except_update"
    /\ db' = update_video_record(db, Cur(p),
                [NoArgs EXCEPT !.error_message = run[p].error_msg])
    /\ run' = [run EXCEPT ![p] = AppendError(@, @.error_msg)]
    /\ UNCHANGED <<admin, files, dirs, runs, dbFaults, prevErr, prevSuccess>>

\* A store call inside the try block raises; the call changes nothing
\* (get_db_connection rolls back) and the handler catches the exception.
StoreFaultInTry(p) ==
    /\ run[p].pc \in {"get", "create", "setpath", "setsuccess"}
    /\ dbFaults < MaxDbFaults
    /\ dbFaults' = dbFaults + 1
    /\ run' = [run EXCEPT ![p] = Raise(@, DbErr)]
    /\ UNCHANGED <<admin, db, files, dirs, runs, prevErr, prevSuccess>>

\* delete_audio_file_path raises: caught with os.remove's handler.
StoreFaultInRemove(p) ==
    /\ run[p].pc = "clearpath"
    /\ dbFaults < MaxDbFaults
    /\ dbFaults' = dbFaults + 1
    /\ run' = [run EXCEPT ![p] = AppendSuccess(@, @.transcript, FALSE)]
    /\ UNCHANGED <<admin, db, files, dirs, runs, prevErr, prevSuccess>>

\* A store call of the except block raises: nothing catches it, the request
\* ends with the exception and returns no lists.
StoreFaultInHandler(p) ==
    /\ \/ run[p].pc = "except" /\ HandlerCall(run[p]) # "none"
       \/ run[p].pc = "except_update"
    /\ dbFaults < MaxDbFaults
    /\ dbFaults' = dbFaults + 1
    /\ run' = [run EXCEPT ![p].pc = "aborted"]
    /\ UNCHANGED <<admin, db, files, dirs, runs, prevErr, prevSuccess>>

\* A cleanup that removes the temporary directory with whatever it holds.
CleanupAlways(p) ==
    /\ run[p].pc = "cleanup"
    /\ dirs' = dirs \ {run[p].temp_dir}
    /\ files' = {f \in files : f.dir # run[p].temp_dir}
    /\ run' = [run EXCEPT ![p].pc = "returned"]
    /\ UNCHANGED <<admin, db, runs, dbFaults, prevErr, prevSuccess>>

\* After the loop: the temporary directory is removed if it holds no file.
Cleanup(p) ==
    /\ run[p].pc = "cleanup"
    /\ dirs' = IF \E f \in files : f.dir = run[p].temp_dir
               THEN dirs
               ELSE dirs \ {run[p].temp_dir}
    /\ run' = [run EXCEPT ![p].pc = "returned"]
    /\ UNCHANGED <<admin, db, files, runs, dbFaults, prevErr, prevSuccess>>

(* ------------------------ what the caller saw ------------------------- *)

\* Ids the response reports as failed by this run's own acquisition or
\* transcription call.
FailedNow(r) ==
    {r.error_results[i].video_id : i \in
        {j \in 1..Len(r.error_results) :
            /\ r.error_results[j].error \in {DlErr, TrErr}
            /\ r.error_results[j].video_id \in r.dl_calls \cup r.tr_calls}}

\* The success list as a map from id to transcript.
Succeeded(r) ==
    [v \in {r.success_results[i].video_id : i \in 1..Len(r.success_results)} |->
        (CHOOSE e \in {r.success_results[i] : i \in 1..Len(r.success_results)} :
            e.video_id = v).transcript]

\* The response (or the escaped exception) leaves; the handler is free again.
Respond(p) ==
    /\ run[p].pc \in {"returned", "aborted"}
    /\ prevErr' = IF run[p].pc = "returned" THEN prevErr \cup FailedNow(run[p])
                  ELSE prevErr
    /\ prevSuccess' = IF run[p].pc = "returned" THEN Succeeded(run[p]) ELSE <<>>
    /\ run' = [run EXCEPT ![p] = IdleRun]
    /\ UNCHANGED <<admin, db, files, dirs, runs, dbFaults>>

(* ---------------------- process_channel_videos ------------------------ *)

\* One entry of video_results.
VideoResult(video_id, status, text, error) ==
    [video_id |-> video_id, status |-> status,
     transcript |-> IF status = "success" THEN text ELSE NULL,
     error |-> IF status = "failed" THEN error ELSE NULL]

\* The head of the channel loop, or the code after it.
ChNextItem(r) ==
    IF r.idx = Len(r.video_list)
    THEN [r EXCEPT !.pc = "ch_cleanup", !.audio_file_path = NoPath,
                   !.transcript = NULL, !.error_msg = NULL]
    ELSE [r EXCEPT !.pc = "ch_get", !.idx = @ + 1, !.audio_file_path = NoPath,
                   !.transcript = NULL, !.error_msg = NULL]

\* status = "success"; success_count += 1; video_results.append(...)
ChReportSuccess(r, text) ==
    ChNextItem([r EXCEPT !.success_count = @ + 1,
                         !.video_results =
                            Append(@, VideoResult(r.video_list[r.idx], "success",
                                                  text, NULL))])

\* video_results.append(...) of an item whose status stayed "failed".
ChReportFailed(r, error) ==
    ChNextItem([r EXCEPT !.video_results =
                            Append(@, VideoResult(r.video_list[r.idx], "failed",
                                                  NULL, error))])

\* An except block that does not count the failure.
ChRaiseUncounted(r, error) ==
    [r EXCEPT !.pc = "ch_except", !.error_msg = error]

\* except Exception as e: error_msg = str(e); failed_count += 1
ChRaise(r, error) ==
    [r EXCEPT !.pc = "ch_except", !.error_msg = error, !.failed_count = @ + 1]

\* The lists of (video_id, video_url) a channel extraction hands to the loop.
ChannelLists == {<<v>> : v \in VideoIds}

\* The channel's video list was extracted, a key is there: mkdtemp, counters 0.
ChSubmit(p) ==
    /\ run[p].pc = "idle"
    /\ runs < MaxRuns
    /\ \E batch \in ChannelLists :
         run' = Accept(p, [IdleRun EXCEPT !.pc = "ch_get", !.kind = "channel",
                                          !.video_list = batch, !.idx = 1,
                                          !.temp_dir = runs + 1])
    /\ runs' = runs + 1
    /\ dirs' = dirs \cup {runs + 1}
    /\ UNCHANGED <<admin, db, files, dbFaults, prevErr, prevSuccess>>

\* What the channel loop does with the record it read, up to the next call.
ChResolve(r, rec) ==
    LET r1 == [r EXCEPT !.db_record = rec]
        row == rec.row
    IN  IF rec.tag = "row" /\ row.status = "success" /\ Truthy(row.transcript)
        THEN ChReportSuccess(r1, row.transcript)
        ELSE IF rec.tag = "row" /\ row.status = "failed"
        THEN ChReportFailed([r1 EXCEPT !.failed_count = @ + 1], row.error_message)
        ELSE IF rec.tag = "none"
        THEN [r1 EXCEPT !.pc = "ch_create"]
        ELSE IF row.audio_file_path # NoPath /\ row.audio_file_path \in files
        THEN [r1 EXCEPT !.pc = "ch_transcribe",
                        !.audio_file_path = row.audio_file_path]
        ELSE [r1 EXCEPT !.pc = "ch_download"]

\* db_record = get_video_record(video_id) and the branches on it.
ChGetRecord(p) ==
    /\ run[p].pc = "ch_get"
    /\ run' = [run EXCEPT ![p] = ChResolve(@, get_video_record(db, Cur(p)))]
    /\ UNCHANGED <<admin, db, files, dirs, runs, dbFaults, prevErr, prevSuccess>>

\* if not db_record: create_video_record(video_id, video_url, "processing")
ChCreateRecord(p) ==
    /\ run[p].pc = "ch_create"
    /\ db' = create_video_record(db, Cur(p), Cur(p), "processing")
    /\ run' = [run EXCEPT ![p].pc = "ch_download"]
    /\ UNCHANGED <<admin, files, dirs, runs, dbFaults, prevErr, prevSuccess>>

ChDownloadOk(p) ==
    /\ run[p].pc = "ch_download"
    /\ files' = files \cup {AudioPath(run[p].temp_dir, Cur(p))}
    /\ run' = [run EXCEPT ![p].pc = "ch_setpath",
                          ![p].audio_file_path = AudioPath(run[p].temp_dir, Cur(p)),
                          ![p].dl_calls = @ \cup {Cur(p)}]
    /\ UNCHANGED <<admin, db, dirs, runs, dbFaults, prevErr, prevSuccess>>

ChDownloadFail(p) ==
    /\ run[p].pc = "ch_download"
    /\ run' = [run EXCEPT ![p] =
                 ChRaise([@ EXCEPT !.dl_calls = @ \cup {Cur(p)}], DlErr)]
    /\ UNCHANGED <<admin, db, files, dirs, runs, dbFaults, prevErr, prevSuccess>>

ChSetPath(p) ==
    /\ run[p].pc = "ch_setpath"
    /\ db' = update_video_record(db, Cur(p),
                [NoArgs EXCEPT !.audio_file_path = run[p].audio_file_path])
    /\ run' = [run EXCEPT ![p].pc = "ch_transcribe"]
    /\ UNCHANGED <<admin, files, dirs, runs, dbFaults, prevErr, prevSuccess>>

ChTranscribeOk(p) ==
    /\ run[p].pc = "ch_transcribe"
    /\ run[p].audio_file_path \in files
    /\ \E text \in Transcripts :
         run' = [run EXCEPT ![p].pc = "ch_setsuccess", ![p].transcript = text,
                            ![p].tr_calls = @ \cup {Cur(p)}]
    /\ UNCHANGED <<admin, db, files, dirs, runs, dbFaults, prevErr, prevSuccess>>

ChTranscribeFail(p) ==
    /\ run[p].pc = "ch_transcribe"
    /\ run' = [run EXCEPT ![p] =
                 ChRaise([@ EXCEPT !.tr_calls = @ \cup {Cur(p)}], TrErr)]
    /\ UNCHANGED <<admin, db, files, dirs, runs, dbFaults, prevErr, prevSuccess>>

ChSetSuccess(p) ==
    /\ run[p].pc = "ch_setsuccess"
    /\ db' = update_video_record(db, Cur(p),
                [NoArgs EXCEPT !.status = "success", !.transcript = run[p].transcript])
    /\ run' = [run EXCEPT ![p].pc = "ch_remove"]
    /\ UNCHANGED <<admin, files, dirs, runs, dbFaults, prevErr, prevSuccess>>

ChRemoveOk(p) ==
    /\ run[p].pc = "ch_remove"
    /\ run[p].audio_file_path # NoPath
    /\ run[p].audio_file_path \in files
    /\ files' = files \ {run[p].audio_file_path}
    /\ run' = [run EXCEPT ![p].pc = "ch_clearpath"]
    /\ UNCHANGED <<admin, db, dirs, runs, dbFaults, prevErr, prevSuccess>>

ChRemoveFail(p) ==
    /\ run[p].pc = "ch_remove"
    /\ run[p].audio_file_path # NoPath
    /\ run[p].audio_file_path \in files
    /\ run' = [run EXCEPT ![p] = ChReportSuccess(@, @.transcript)]
    /\ UNCHANGED <<admin, db, files, dirs, runs, dbFaults, prevErr, prevSuccess>>

ChRemoveSkip(p) ==
    /\ run[p].pc = "ch_remove"
    /\ ~(run[p].audio_file_path # NoPath /\ run[p].audio_file_path \in files)
    /\ run' = [run EXCEPT ![p] = ChReportSuccess(@, @.transcript)]
    /\ UNCHANGED <<admin, db, files, dirs, runs, dbFaults, prevErr, prevSuccess>>

ChClearPath(p) ==
    /\ run[p].pc = "ch_clearpath"
    /\ db' = delete_audio_file_path(db, Cur(p))
    /\ run' = [run EXCEPT ![p] = ChReportSuccess(@, @.transcript)]
    /\ UNCHANGED <<admin, files, dirs, runs, dbFaults, prevErr, prevSuccess>>

\* The except block reads the record again before it writes the failure.
ChExceptRead(p) ==
    /\ run[p].pc = "ch_except"
    /\ run' = [run EXCEPT ![p].db_record = get_video_record(db, Cur(p)),
                          ![p].pc = "ch_except_write"]
    /\ UNCHANGED <<admin, db, files, dirs, runs, dbFaults, prevErr, prevSuccess>>

\* update to failed, or create as failed, or nothing for a failed record.
ChExceptWrite(p) ==
    /\ run[p].pc = "ch_except_write"
    /\ LET r == run[p] IN
       IF HandlerCall(r) = "update"
       THEN /\ db' = update_video_record(db, Cur(p),
                        [NoArgs EXCEPT !.status = "failed",
                                       !.error_message = r.error_msg])
            /\ run' = [run EXCEPT ![p] = ChReportFailed(@, r.error_msg)]
       ELSE IF HandlerCall(r) = "create"
       THEN /\ db' = create_video_record(db, Cur(p), Cur(p), "failed")
            /\ run' = [run EXCEPT ![p].pc = "ch_except_update"]
       ELSE /\ db' = db
            /\ run' = [run EXCEPT ![p] = ChReportFailed(@, r.error_msg)]
    /\ UNCHANGED <<admin, files, dirs, runs, dbFaults, prevErr, prevSuccess>>

ChExceptUpdate(p) ==
    /\ run[p].pc = "ch_except_update"
    /\ db' = update_video_record(db, Cur(p),
                [NoArgs EXCEPT !.error_message = run[p].error_msg])
    /\ run' = [run EXCEPT ![p] = ChReportFailed(@, @.error_msg)]
    /\ UNCHANGED <<admin, files, dirs, runs, dbFaults, prevErr, prevSuccess>>

\* A store call of the channel loop's try block raises.
ChStoreFaultInTry(p) ==
    /\ run[p].pc \in {"ch_get", "ch_create", "ch_setpath", "ch_setsuccess"}
    /\ dbFaults < MaxDbFaults
    /\ dbFaults' = dbFaults + 1
    /\ run' = [run EXCEPT ![p] = ChRaise(@, DbErr)]
    /\ UNCHANGED <<admin, db, files, dirs, runs, prevErr, prevSuccess>>

\* delete_audio_file_path raises after os.remove: caught, a warning is printed.
ChStoreFaultInRemove(p) ==
    /\ run[p].pc = "ch_clearpath"
    /\ dbFaults < MaxDbFaults
    /\ dbFaults' = dbFaults + 1
    /\ run' = [run EXCEPT ![p] = ChReportSuccess(@, @.transcript)]
    /\ UNCHANGED <<admin, db, files, dirs, runs, prevErr, prevSuccess>>

\* A store call of the except block raises: the endpoint answers HTTP 500.
ChStoreFaultInHandler(p) ==
    /\ run[p].pc \in {"ch_except", "ch_except_write", "ch_except_update"}
    /\ run[p].pc = "ch_except_write" => HandlerCall(run[p]) # "none"
    /\ dbFaults < MaxDbFaults
    /\ dbFaults' = dbFaults + 1
    /\ run' = [run EXCEPT ![p].pc = "ch_aborted"]
    /\ UNCHANGED <<admin, db, files, dirs, runs, prevErr, prevSuccess>>

ChCleanup(p) ==
    /\ run[p].pc = "ch_cleanup"
    /\ dirs' = IF \E f \in files : f.dir = run[p].temp_dir
               THEN dirs
               ELSE dirs \ {run[p].temp_dir}
    /\ run' = [run EXCEPT ![p].pc = "ch_returned"]
    /\ UNCHANGED <<admin, db, files, runs, dbFaults, prevErr, prevSuccess>>

\* The ChannelProcessResponse leaves; it is no /transcribe success list.
ChRespond(p) ==
    /\ run[p].pc \in {"ch_returned", "ch_aborted"}
    /\ prevSuccess' = <<>>
    /\ run' = [run EXCEPT ![p] = IdleRun]
    /\ UNCHANGED <<admin, db, files, dirs, runs, dbFaults, prevErr>>

(* --------------------------- specification ---------------------------- *)

\* One step of the handler p. With one request at a time the file a run has
\* transcribed is still on disk at its os.path.exists, so RemoveSkip is left
\* to the interleaved runs.
Step(p) ==
    \/ Submit(p)
    \/ GetRecord(p)
    \/ CreateRecord(p)
    \/ DownloadOk(p)
    \/ DownloadFail(p)
    \/ SetPath(p)
    \/ TranscribeOk(p)
    \/ TranscribeFail(p)
    \/ SetSuccess(p)
    \/ RemoveOk(p)
    \/ RemoveFail(p)
    \/ ClearPath(p)
    \/ Except(p)
    \/ ExceptUpdate(p)
    \/ StoreFaultInTry(p)
    \/ StoreFaultInRemove(p)
    \/ StoreFaultInHandler(p)
    \/ Cleanup(p)
    \/ Respond(p)

Next == \E p \in SeqProcs : Step(p)

Spec == Init /\ [][Next]_vars

\* One step of a channel request.
ChStep(p) ==
    \/ ChSubmit(p)
    \/ ChGetRecord(p)
    \/ ChCreateRecord(p)
    \/ ChDownloadOk(p)
    \/ ChDownloadFail(p)
    \/ ChSetPath(p)
    \/ ChTranscribeOk(p)
    \/ ChTranscribeFail(p)
    \/ ChSetSuccess(p)
    \/ ChRemoveOk(p)
    \/ ChRemoveFail(p)
    \/ ChRemoveSkip(p)
    \/ ChClearPath(p)
    \/ ChExceptRead(p)
    \/ ChExceptWrite(p)
    \/ ChExceptUpdate(p)
    \/ ChStoreFaultInTry(p)
    \/ ChStoreFaultInRemove(p)
    \/ ChStoreFaultInHandler(p)
    \/ ChCleanup(p)
    \/ ChRespond(p)

\* A /transcribe request with a single reference.
SubmitOne(p) ==
    /\ run[p].pc = "idle"
    /\ runs < MaxRuns
    /\ \E batch \in ChannelLists :
         run' = Accept(p, [IdleRun EXCEPT !.pc = "get", !.video_list = batch,
                                          !.idx = 1, !.temp_dir = runs + 1])
    /\ runs' = runs + 1
    /\ dirs' = dirs \cup {runs + 1}
    /\ UNCHANGED <<admin, db, files, dbFaults, prevErr, prevSuccess>>

\* One step of a /transcribe request.
TrStep(p) ==
    \/ SubmitOne(p)
    \/ GetRecord(p)
    \/ CreateRecord(p)
    \/ DownloadOk(p)
    \/ DownloadFail(p)
    \/ SetPath(p)
    \/ TranscribeOk(p)
    \/ TranscribeFail(p)
    \/ SetSuccess(p)
    \/ RemoveOk(p)
    \/ RemoveFail(p)
    \/ RemoveSkip(p)
    \/ ClearPath(p)
    \/ Except(p)
    \/ ExceptUpdate(p)
    \/ StoreFaultInTry(p)
    \/ StoreFaultInRemove(p)
    \/ StoreFaultInHandler(p)
    \/ Cleanup(p)
    \/ Respond(p)

\* Requests of both endpoints served by two workers whose steps interleave
\* (each store call commits on its own; nothing locks a record for a run).
NextConc == \E p \in Procs : TrStep(p) \/ ChStep(p)

SpecConc == Init /\ [][NextConc]_vars

(* ------------------------------- claims ------------------------------- *)

\* The identifiers of a result list, in list order.
Ids(list) == [i \in 1..Len(list) |-> list[i].video_id]

\* The elements of a sequence.
Range(seq) == {seq[i] : i \in 1..Len(seq)}

\* C1: an item whose acquisition or transcription failed in this run, and that
\* the run has put on its error list, has a record with status=failed and
\* error_message equal to the reported error text.
C1_FailureRecorded ==
    \A p \in Procs :
        \A e \in Range(run[p].error_results) :
            (e.error \in {DlErr, TrErr}
               /\ e.video_id \in run[p].dl_calls \cup run[p].tr_calls)
            => /\ e.video_id \in DOMAIN db
               /\ db[e.video_id].status = "failed"
               /\ db[e.video_id].error_message = e.error

\* C2: the step that resolves an item whose record is failed (the lookup
\* itself did not raise) changes no record, makes no acquisition or
\* transcription call, and appends the item to the error list with the
\* stored error message.
C2_FailedNeverRetried ==
    [][\A p \in Procs :
        (/\ run[p].pc = "get"
         /\ run'[p] # run[p]
         /\ Cur(p) \in DOMAIN db
         /\ db[Cur(p)].status = "failed"
         /\ ~(run'[p].pc = "except" /\ run'[p].error_msg = DbErr))
        => /\ db' = db
           /\ run'[p].dl_calls = run[p].dl_calls
           /\ run'[p].tr_calls = run[p].tr_calls
           /\ run'[p].success_results = run[p].success_results
           /\ run'[p].error_results =
                Append(run[p].error_results,
                       ErrorResponse(Cur(p), db[Cur(p)].error_message))]_vars

\* C3: an id that a returned batch reported as failed in acquisition or
\* transcription gets no acquisition and no transcription call in any later
\* request, and every later request that returns reports it as an error.
C3_ReportedFailureIsTerminal ==
    \A p \in Procs :
        /\ \A v \in prevErr : v \notin run[p].dl_calls \cup run[p].tr_calls
        /\ run[p].pc = "returned"
           => \A v \in Range(run[p].video_list) \cap prevErr :
                  v \in Range(Ids(run[p].error_results))

\* C4: an id on the success list of the request before gets no acquisition
\* and no transcription call, and the request returns it on the success list
\* with from_cache = TRUE and the same transcript.
C4_SuccessServedFromCache ==
    \A p \in Procs :
        /\ \A v \in DOMAIN prevSuccess :
               v \notin run[p].dl_calls \cup run[p].tr_calls
        /\ run[p].pc = "returned"
           => \A v \in Range(run[p].video_list) \cap DOMAIN prevSuccess :
                  TranscriptResponse(v, prevSuccess[v], TRUE)
                      \in Range(run[p].success_results)

\* C5: no exception raised while an item is processed ends the request: the
\* loop always reaches the items after it and the request returns its lists.
C5_NoExceptionEndsTheBatch ==
    \A p \in Procs : run[p].pc # "aborted"

\* C6: when the request returns, every id of the normalized batch is on
\* exactly one of the two lists, exactly once, and each list is in batch order.
C6_ListsPartitionTheBatch ==
    \A p \in Procs :
        run[p].pc = "returned" =>
            LET S == Range(Ids(run[p].success_results))
                E == Range(Ids(run[p].error_results))
            IN  /\ S \cap E = {}
                /\ S \cup E = Range(run[p].video_list)
                /\ Ids(run[p].success_results) =
                       SelectSeq(run[p].video_list, LAMBDA v : v \in S)
                /\ Ids(run[p].error_results) =
                       SelectSeq(run[p].video_list, LAMBDA v : v \in E)

\* C6 witness: a returned batch of two with one success and one error.
C6_Witness ==
    \E p \in Procs :
        /\ run[p].pc = "returned"
        /\ Len(run[p].video_list) = 2
        /\ Len(run[p].success_results) = 1
        /\ Len(run[p].error_results) = 1

\* C7: a record with status=success has a non-empty transcript.
C7_SuccessHasTranscript ==
    \A v \in DOMAIN db : db[v].status = "success" => Truthy(db[v].transcript)

\* C8: between items (no item is being processed), a record with
\* status=success has no audio_file_path.
C8_SuccessHasNoArtifactPath ==
    (\A p \in Procs : run[p].pc \in {"idle", "get", "cleanup", "returned"})
    => \A v \in DOMAIN db :
           db[v].status = "success" => db[v].audio_file_path = NoPath

\* C9: a record with status=failed has a non-empty error_message, in every
\* state of the store.
C9_FailedHasErrorMessage ==
    \A v \in DOMAIN db : db[v].status = "failed" => Truthy(db[v].error_message)

\* C10: a record with an error_message has status=failed.
C10_ErrorMessageOnlyWhenFailed ==
    \A v \in DOMAIN db : db[v].error_message # NULL => db[v].status = "failed"

(* ------------------------------- C11 ---------------------------------- *)

\* C11: status = failed is absorbing. Once a record is failed, no step of any
\* transcribe_videos or process_channel_videos run changes its status, also
\* when two runs on the same identifier interleave.
C11_FailedIsAbsorbing ==
    [][\A v \in DOMAIN db :
          db[v].status = "failed" => db'[v].status = "failed"]_vars

(* ------------------------------- C12 ---------------------------------- *)

\* The handler p is at a create_video_record call.
AtCreate(p) ==
    \/ run[p].pc \in {"create", "ch_create"}
    \/ run[p].pc \in {"except", "ch_except_write"} /\ HandlerCall(run[p]) = "create"

\* The step is a create_video_record call of p that returned.
CreateStep(p) ==
    AtCreate(p) /\ run'[p].pc # run[p].pc /\ dbFaults' = dbFaults

\* C12: create_video_record on an identifier that has a record changes no field
\* of it, and after creates for one identifier, however they interleave, that
\* identifier has exactly one record (the call adds one row when there was none
\* and no row otherwise, and touches no other row).
C12_CreateIsIdempotent ==
    [][\A p \in Procs :
          CreateStep(p) =>
             LET v == Cur(p) IN
             /\ v \in DOMAIN db'
             /\ v \in DOMAIN db => db' = db
             /\ v \notin DOMAIN db =>
                   /\ DOMAIN db' = DOMAIN db \cup {v}
                   /\ \A w \in DOMAIN db : db'[w] = db[w]]_vars

\* Two overlapping runs both found no record for the same identifier and both
\* have made their create call; the second call met the row of the first.
C12_Witness ==
    \E p, q \in Procs :
       /\ p # q
       /\ run[p].pc \in {"download", "ch_download"}
       /\ run[q].pc \in {"download", "ch_download", "setpath", "ch_setpath"}
       /\ run[p].db_record.tag = "none"
       /\ run[q].db_record.tag = "none"
       /\ Cur(p) = Cur(q)
       /\ Cur(p) \in DOMAIN db

(* ------------------------------- C13 ---------------------------------- *)

\* The record of video_id exists, is neither a success with a transcript nor
\* failed, and its audio_file_path names a file that is on disk.
Reusable(d, fs, video_id) ==
    /\ video_id \in DOMAIN d
    /\ ~(d[video_id].status = "success" /\ Truthy(d[video_id].transcript))
    /\ d[video_id].status # "failed"
    /\ d[video_id].audio_file_path # NoPath
    /\ d[video_id].audio_file_path \in fs

\* The step is p's record lookup with the branches that follow it.
LookupStep(p) ==
    /\ run[p].pc \in {"get", "ch_get"}
    /\ run'[p].pc # run[p].pc \/ run'[p].idx # run[p].idx
    /\ dbFaults' = dbFaults

\* The run works on the file its lookup found stored in the record.
Reusing(r) ==
    /\ r.db_record.tag = "row"
    /\ r.db_record.row.audio_file_path # NoPath
    /\ r.audio_file_path = r.db_record.row.audio_file_path

\* The step is p's transcribe_audio call.
TranscribeStep(p) ==
    /\ run[p].pc \in {"transcribe", "ch_transcribe"}
    /\ run'[p].pc # run[p].pc

\* C13: when the item's record exists, is neither success-with-transcript nor
\* failed, and its audio_file_path names an existing file, the run makes no
\* acquisition call for the item and hands exactly the stored file to
\* transcribe_audio, in transcribe_videos and in process_channel_videos.
C13_StoredArtifactIsReused ==
    [][\A p \in Procs :
          /\ LookupStep(p) /\ Reusable(db, files, Cur(p)) =>
                /\ run'[p].pc \in {"transcribe", "ch_transcribe"}
                /\ run'[p].audio_file_path = db[Cur(p)].audio_file_path
                /\ run'[p].dl_calls = run[p].dl_calls
                /\ db' = db
          /\ TranscribeStep(p) /\ Reusing(run[p]) =>
                /\ Cur(p) \notin run'[p].dl_calls
                /\ Cur(p) \in run'[p].tr_calls
                /\ run[p].audio_file_path = run[p].db_record.row.audio_file_path]_vars

\* A channel run has transcribed a stored file without downloading.
C13_Witness ==
    \E p \in Procs :
       /\ run[p].kind = "channel"
       /\ run[p].pc = "ch_setsuccess"
       /\ Reusing(run[p])
       /\ Cur(p) \in run[p].tr_calls
       /\ Cur(p) \notin run[p].dl_calls

(* ------------------------------- C14 ---------------------------------- *)

\* The step is p's artifact deletion failing: os.remove raises, or the
\* delete_audio_file_path that follows it raises.
DeletionFails(p) ==
    \/ run[p].pc = "remove" /\ run'[p].pc \notin {"remove", "clearpath"}
    \/ run[p].pc = "clearpath" /\ dbFaults' # dbFaults

\* C14: when transcription succeeded and the artifact deletion or the path
\* clearing after it fails, the item is still appended to the success list with
\* from_cache = false and its record keeps status = success with the transcript.
C14_CleanupFailureKeepsSuccess ==
    [][\A p \in SeqProcs :
          DeletionFails(p) =>
             LET v == Cur(p) IN
             /\ run'[p].success_results =
                   Append(run[p].success_results,
                          TranscriptResponse(v, run[p].transcript, FALSE))
             /\ run'[p].error_results = run[p].error_results
             /\ v \in DOMAIN db'
             /\ db'[v].status = "success"
             /\ db'[v].transcript = run[p].transcript]_vars

\* An item is on the success list as freshly transcribed while its record still
\* carries the artifact path: the deletion or the clearing did not go through.
C14_Witness ==
    \E p \in SeqProcs : \E i \in 1..Len(run[p].success_results) :
       LET s == run[p].success_results[i] IN
       /\ s.from_cache = FALSE
       /\ s.video_id \in DOMAIN db
       /\ db[s.video_id].status = "success"
       /\ db[s.video_id].audio_file_path # NoPath

(* ------------------------------- C15 ---------------------------------- *)

\* The step is a step of p from the raising acquisition or transcription call
\* to the end of the item's except block.
FailureStep(p) ==
    \/ /\ run[p].pc \in {"download", "transcribe"}
       /\ run'[p].pc = "except"
    \/ /\ run[p].pc \in {"except", "except_update"}
       /\ run[p].error_msg \in {DlErr, TrErr}
       /\ run'[p].pc # run[p].pc

\* The step is the temp-directory cleanup after the loop.
CleanupStep(p) ==
    run[p].pc = "cleanup" /\ run'[p].pc = "returned"

\* C15: when an item fails in acquisition or transcription the run neither
\* deletes the artifact file nor clears the record's audio_file_path, and the
\* batch's temp directory is removed at the end of the run only if it holds
\* no file.
C15_FailureKeepsArtifact ==
    [][\A p \in SeqProcs :
          /\ FailureStep(p) =>
                /\ files' = files
                /\ run'[p].pc # "except" /\ run[p].audio_file_path # NoPath =>
                      run[p].audio_file_path \in files'
                /\ Cur(p) \in DOMAIN db =>
                      db'[Cur(p)].audio_file_path = db[Cur(p)].audio_file_path
          /\ CleanupStep(p) =>
                /\ files' = files
                /\ run[p].temp_dir \notin dirs' =>
                      ~ \E f \in files' : f.dir = run[p].temp_dir
                /\ \A i \in 1..Len(run[p].error_results) :
                      LET e == run[p].error_results[i] IN
                      e.error = TrErr /\ e.video_id \in run[p].dl_calls =>
                         /\ AudioPath(run[p].temp_dir, e.video_id) \in files'
                         /\ run[p].temp_dir \in dirs'
                         /\ db'[e.video_id].audio_file_path =
                               AudioPath(run[p].temp_dir, e.video_id)]_vars

\* A run has returned with an item whose transcription failed after its own
\* download: the file and the temp directory are still there, while the
\* directory of an earlier run that kept no file is gone.
C15_Witness ==
    \E p \in SeqProcs :
       /\ run[p].pc = "returned"
       /\ \E i \in 1..Len(run[p].error_results) :
             LET e == run[p].error_results[i] IN
             /\ e.error = TrErr
             /\ e.video_id \in run[p].dl_calls
             /\ AudioPath(run[p].temp_dir, e.video_id) \in files
       /\ run[p].temp_dir \in dirs
       /\ \E d \in 1..runs : d \notin dirs

(* ------------------------- extract_video_id --------------------------- *)

\* Strings are sequences of one-character strings.

\* {11}: the length of a video id in the three patterns.
IdLen == 11

\* [a-zA-Z0-9_-]
IdChars ==
    {"a", "b", "c", "d", "e", "f", "g", "h", "i", "j", "k", "l", "m",
     "n", "o", "p", "q", "r", "s", "t", "u", "v", "w", "x", "y", "z",
     "A", "B", "C", "D", "E", "F", "G", "H", "I", "J", "K", "L", "M",
     "N", "O", "P", "Q", "R", "S", "T", "U", "V", "W", "X", "Y", "Z",
     "0", "1", "2", "3", "4", "5", "6", "7", "8", "9", "_", "-"}

\* Characters str.strip() removes (those the inputs below can hold).
Whitespace == {" ", "\t", "\n"}

\* [?&=/]
UrlChars == {"?", "&", "=", "/"}

\* The literal parts of the patterns.
WatchV ==
    <<"y", "o", "u", "t", "u", "b", "e", ".", "c", "o", "m", "/", "w", "a",
      "t", "c", "h", "?", "v", "=">>
YoutuBe ==
    <<"y", "o", "u", "t", "u", ".", "b", "e", "/">>
Embed ==
    <<"y", "o", "u", "t", "u", "b", "e", ".", "c", "o", "m", "/", "e", "m",
      "b", "e", "d", "/">>
SlashV ==
    <<"y", "o", "u", "t", "u", "b", "e", ".", "c", "o", "m", "/", "v", "/">>
MobileWatchV ==
    <<"m", ".", "y", "o", "u", "t", "u", "b", "e", ".", "c", "o", "m", "/",
      "w", "a", "t", "c", "h", "?", "v", "=">>
WatchQuery ==
    <<"y", "o", "u", "t", "u", "b", "e", ".", "c", "o", "m", "/", "w", "a",
      "t", "c", "h", "?">>
VEquals ==
    <<"v", "=">>

\* The string as it came, blanks included.
Unstripped(s) == s

\* A strip that removes one blank at most from each end.
strip_one(s) ==
    LET lo == IF s # <<>> /\ s[1] \in Whitespace THEN 2 ELSE 1
        hi == IF Len(s) >= lo /\ s[Len(s)] \in Whitespace THEN Len(s) - 1
              ELSE Len(s)
    IN  SubSeq(s, lo, hi)

\* url_or_id.strip()
strip(s) ==
    LET keep == {i \in 1..Len(s) : s[i] \notin Whitespace}
        lo == CHOOSE i \in keep : \A j \in keep : i <= j
        hi == CHOOSE i \in keep : \A j \in keep : j <= i
    IN  IF keep = {} THEN <<>> ELSE SubSeq(s, lo, hi)

\* re.search(r'[?&=/]', s)
HasUrlChar(s) == \E i \in 1..Len(s) : s[i] \in UrlChars

\* The literal lit stands in s at position i.
LitAt(s, lit, i) ==
    /\ i + Len(lit) - 1 <= Len(s)
    /\ SubSeq(s, i, i + Len(lit) - 1) = lit

\* ([a-zA-Z0-9_-]{11}) matches in s at position j.
IdAt(s, j) ==
    /\ j + IdLen - 1 <= Len(s)
    /\ \A k \in j..(j + IdLen - 1) : s[k] \in IdChars

\* The value of a search that found nothing.
NoMatch == <<"no match">>

\* re.search of (?:alts[1]|alts[2]|...)([a-zA-Z0-9_-]{11}): the leftmost
\* position, there the first alternative that lets the group match; group(1).
SearchLiteralThenId(alts, s) ==
    LET Fits(i, a) == LitAt(s, alts[a], i) /\ IdAt(s, i + Len(alts[a]))
        starts == {i \in 1..Len(s) : \E a \in 1..Len(alts) : Fits(i, a)}
        i0 == CHOOSE i \in starts : \A j \in starts : i <= j
        a0 == CHOOSE a \in 1..Len(alts) :
                 Fits(i0, a) /\ \A b \in 1..Len(alts) : Fits(i0, b) => a <= b
    IN  IF starts = {} THEN NoMatch
        ELSE SubSeq(s, i0 + Len(alts[a0]), i0 + Len(alts[a0]) + IdLen - 1)

\* re.search of youtube\.com\/watch\?.*[&?]v=([a-zA-Z0-9_-]{11}): the leftmost
\* start; the greedy .* (no newline) takes the last separator that lets the
\* rest match; group(1).
SearchWatchQuery(s) ==
    LET Seps(i) == {j \in (i + Len(WatchQuery))..Len(s) :
                       /\ s[j] \in {"&", "?"}
                       /\ LitAt(s, VEquals, j + 1)
                       /\ IdAt(s, j + 1 + Len(VEquals))
                       /\ \A k \in (i + Len(WatchQuery))..(j - 1) : s[k] # "\n"}
        starts == {i \in 1..Len(s) : LitAt(s, WatchQuery, i) /\ Seps(i) # {}}
        i0 == CHOOSE i \in starts : \A j \in starts : i <= j
        j0 == CHOOSE j \in Seps(i0) : \A k \in Seps(i0) : k <= j
    IN  IF starts = {} THEN NoMatch
        ELSE SubSeq(s, j0 + 1 + Len(VEquals), j0 + Len(VEquals) + IdLen)

\* A pattern list that holds the first pattern only.
FirstPatternOnly(n, s) ==
    IF n = 1
    THEN SearchLiteralThenId(<<WatchV, YoutuBe, Embed, SlashV, MobileWatchV>>, s)
    ELSE NoMatch

\* The three patterns in the order the loop tries them.
PatternMatch(n, s) ==
    IF n = 1
    THEN SearchLiteralThenId(<<WatchV, YoutuBe, Embed, SlashV, MobileWatchV>>, s)
    ELSE IF n = 2 THEN SearchWatchQuery(s)
    ELSE SearchLiteralThenId(<<YoutuBe>>, s)

extract_video_id(url_or_id) ==
    LET s == strip(url_or_id) IN
    IF ~HasUrlChar(s) THEN s
    ELSE IF PatternMatch(1, s) # NoMatch THEN PatternMatch(1, s)
    ELSE IF PatternMatch(2, s) # NoMatch THEN PatternMatch(2, s)
    ELSE IF PatternMatch(3, s) # NoMatch THEN PatternMatch(3, s)
    ELSE s

(* ---------------------- normalize_video_input ------------------------- *)

\* `if videos:` is false for None and for the empty list.
NonEmpty(l) == l.given /\ l.items # <<>>

\* The same blocks in the order of the parameters.
CollectedInParameterOrder(video_ids, video_urls, videos) ==
    LET entries == (IF NonEmpty(video_ids) THEN video_ids.items ELSE <<>>)
                   \o (IF NonEmpty(video_urls) THEN video_urls.items ELSE <<>>)
                   \o (IF NonEmpty(videos) THEN videos.items ELSE <<>>)
    IN  [i \in 1..Len(entries) |-> <<extract_video_id(entries[i]), entries[i]>>]

\* result after the three `if ...: for ...: result.append(...)` blocks.
Collected(video_ids, video_urls, videos) ==
    LET entries == (IF NonEmpty(videos) THEN videos.items ELSE <<>>)
                   \o (IF NonEmpty(video_ids) THEN video_ids.items ELSE <<>>)
                   \o (IF NonEmpty(video_urls) THEN video_urls.items ELSE <<>>)
    IN  [i \in 1..Len(entries) |-> <<extract_video_id(entries[i]), entries[i]>>]

\* A loop that appends every pair, seen or not.
KeepAll(result, seen) == result

\* The loop over result with the set seen: the first pair of each video_id.
RECURSIVE RemoveDuplicates(_, _)
RemoveDuplicates(result, seen) ==
    IF result = <<>> THEN <<>>
    ELSE IF Head(result)[1] \in seen
    THEN RemoveDuplicates(Tail(result), seen)
    ELSE <<Head(result)>>
         \o RemoveDuplicates(Tail(result), seen \cup {Head(result)[1]})

normalize_video_input(video_ids, video_urls, videos) ==
    RemoveDuplicates(Collected(video_ids, video_urls, videos), {})

(* ----------------------- the /transcribe request ---------------------- *)

\* The most entries the three lists of a request hold together.
MaxEntries == 3

\* Inputs: a short bare identifier and the short URL around it, an 11-character
\* identifier and the short URL around it, and an identifier with blanks around.
Https ==
    <<"h", "t", "t", "p", "s", ":", "/", "/">>
Www ==
    <<"w", "w", "w", ".">>
BareShort ==
    <<"a", "b", "c">>
ShortUrlShort == Https \o YoutuBe \o BareShort
BareId ==
    <<"d", "Q", "w", "4", "w", "9", "W", "g", "X", "c", "Q">>
ShortUrlId == Https \o YoutuBe \o BareId
Padded ==
    <<" ", "a", "b", "c", " ">>
Inputs == {BareShort, ShortUrlShort, BareId, ShortUrlId, Padded}

\* 11-character identifiers: a run of one character followed by a run of another.
IdAlphabet == {"a", "Z", "0", "_", "-"}
SampleIds ==
    {[i \in 1..IdLen |-> IF i <= k THEN c ELSE d] :
        c \in IdAlphabet, d \in IdAlphabet, k \in 0..IdLen}

\* The recognized URL shapes around the identifier v.
FeatureThenV ==
    <<"f", "e", "a", "t", "u", "r", "e", "=", "s", "h", "a", "r", "e", "&",
      "v", "=">>
ListThenV ==
    <<"l", "i", "s", "t", "=", "P", "L", "1", "&", "v", "=">>
ThenIndex ==
    <<"&", "i", "n", "d", "e", "x", "=", "2">>
ThenTime ==
    <<"&", "t", "=", "4", "2", "s">>
ShapePrefix ==
    <<Https \o Www \o WatchV,
      Https \o YoutuBe,
      Https \o Www \o Embed,
      Https \o Www \o SlashV,
      Https \o MobileWatchV,
      Https \o Www \o WatchQuery \o FeatureThenV,
      Https \o Www \o WatchQuery \o ListThenV,
      Https \o Www \o WatchV>>
ShapeSuffix == <<<<>>, <<>>, <<>>, <<>>, <<>>, <<>>, ThenIndex, ThenTime>>
UrlShape(n, v) == ShapePrefix[n] \o v \o ShapeSuffix[n]
Shapes == 1..Len(ShapePrefix)

\* A list of k entries; an empty one is None or [].
ListsOf(k) ==
    IF k = 0 THEN {None, Some(<<>>)}
    ELSE {Some(items) : items \in [1..k -> Inputs]}

\* deepgram_api_key of the request; DEEPGRAM_API_KEY of the environment.
Keys == {NULL, "", "key"}
EnvKeys == {NULL, "envkey"}

\* A request with a key and up to MaxEntries entries over Inputs arrives.
ReceiveLists(p) ==
    /\ run[p].pc = "idle"
    /\ runs = 0
    /\ \E la, lb, lc \in 0..MaxEntries :
         /\ la + lb + lc <= MaxEntries
         /\ \E a \in ListsOf(la), b \in ListsOf(lb), c \in ListsOf(lc) :
              run' = Accept(p, [IdleRun EXCEPT !.pc = "validate",
                                               !.request = VideoRequest(a, b, c, "key"),
                                               !.environ = NULL, !.db0 = db])
    /\ runs' = runs + 1
    /\ UNCHANGED <<admin, db, files, dirs, dbFaults, prevErr, prevSuccess>>

\* A request with at most one entry in each list arrives; the key is absent,
\* empty or given, in the request and in the environment.
ReceiveKeys(p) ==
    /\ run[p].pc = "idle"
    /\ runs = 0
    /\ \E a, b, c \in ListsOf(0) \cup ListsOf(1) : \E k \in Keys, e \in EnvKeys :
         run' = Accept(p, [IdleRun EXCEPT !.pc = "validate",
                                          !.request = VideoRequest(a, b, c, k),
                                          !.environ = e, !.db0 = db])
    /\ runs' = runs + 1
    /\ UNCHANGED <<admin, db, files, dirs, dbFaults, prevErr, prevSuccess>>

\* A request with one URL of a recognized shape arrives.
ReceiveUrl(p) ==
    /\ run[p].pc = "idle"
    /\ runs = 0
    /\ \E v \in SampleIds, n \in Shapes :
         run' = Accept(p, [IdleRun EXCEPT
                              !.pc = "validate",
                              !.request = VideoRequest(Some(<<UrlShape(n, v)>>),
                                                       None, None, "key"),
                              !.environ = NULL, !.db0 = db])
    /\ runs' = runs + 1
    /\ UNCHANGED <<admin, db, files, dirs, dbFaults, prevErr, prevSuccess>>

\* if not request.videos and not request.video_ids and not request.video_urls:
\*     raise HTTPException(status_code=400, ...)
NoVideos(request) ==
    /\ ~NonEmpty(request.videos)
    /\ ~NonEmpty(request.video_ids)
    /\ ~NonEmpty(request.video_urls)

ValidateInput(p) ==
    /\ run[p].pc = "validate"
    /\ run' = [run EXCEPT ![p].pc = IF NoVideos(run[p].request)
                                   THEN "rejected" ELSE "api_key"]
    /\ UNCHANGED <<admin, db, files, dirs, runs, dbFaults, prevErr, prevSuccess>>

\* api_key = request.deepgram_api_key or os.getenv("DEEPGRAM_API_KEY")
ApiKey(r) ==
    IF Truthy(r.request.deepgram_api_key) THEN r.request.deepgram_api_key
    ELSE r.environ

\* The key is taken as it comes and never tested.
GetApiKeyUnchecked(p) ==
    /\ run[p].pc = "api_key"
    /\ run' = [run EXCEPT ![p].pc = "normalize"]
    /\ UNCHANGED <<admin, db, files, dirs, runs, dbFaults, prevErr, prevSuccess>>

\* if not api_key: raise HTTPException(status_code=400, ...)
GetApiKey(p) ==
    /\ run[p].pc = "api_key"
    /\ run' = [run EXCEPT ![p].pc = IF Truthy(ApiKey(run[p]))
                                   THEN "normalize" ELSE "rejected"]
    /\ UNCHANGED <<admin, db, files, dirs, runs, dbFaults, prevErr, prevSuccess>>

\* video_list = normalize_video_input(request.video_ids, request.video_urls,
\*                                    request.videos)
NormalizeInput(p) ==
    /\ run[p].pc = "normalize"
    /\ run' = [run EXCEPT ![p].pc = "mkdtemp",
                          ![p].pairs = normalize_video_input(
                                          run[p].request.video_ids,
                                          run[p].request.video_urls,
                                          run[p].request.videos)]
    /\ UNCHANGED <<admin, db, files, dirs, runs, dbFaults, prevErr, prevSuccess>>

\* temp_dir = tempfile.mkdtemp(...), the empty result lists, the loop head.
MakeTempDir(p) ==
    /\ run[p].pc = "mkdtemp"
    /\ dirs' = dirs \cup {runs}
    /\ run' = [run EXCEPT
                 ![p].temp_dir = runs,
                 ![p].video_list = [i \in 1..Len(run[p].pairs) |-> run[p].pairs[i][1]],
                 ![p].idx = IF run[p].pairs = <<>> THEN 0 ELSE 1,
                 ![p].pc = IF run[p].pairs = <<>> THEN "cleanup" ELSE "get"]
    /\ UNCHANGED <<admin, db, files, runs, dbFaults, prevErr, prevSuccess>>

\* The most blanks at one end of an entry.
MaxPad == 2

\* A short identifier with up to MaxPad blanks at each end.
Blanks(n) == [i \in 1..n |-> " "]
PaddedInputs == {Blanks(i) \o BareShort \o Blanks(j) : i, j \in 0..MaxPad}

\* A request with one identifier between blanks arrives.
ReceivePadded(p) ==
    /\ run[p].pc = "idle"
    /\ runs = 0
    /\ \E u \in PaddedInputs :
         run' = Accept(p, [IdleRun EXCEPT
                              !.pc = "validate",
                              !.request = VideoRequest(Some(<<u>>), None, None, "key"),
                              !.environ = NULL, !.db0 = db])
    /\ runs' = runs + 1
    /\ UNCHANGED <<admin, db, files, dirs, dbFaults, prevErr, prevSuccess>>

\* A store that holds the transcript of an earlier request, or nothing yet.
InitRequest ==
    /\ db \in {<<>>,
               update_video_record(
                  create_video_record(<<>>, BareId, BareId, "processing"), BareId,
                  [NoArgs EXCEPT !.status = "success", !.transcript = "hello"])}
    /\ files = {}
    /\ dirs = {}
    /\ run = [p \in Procs |-> IdleRun]
    /\ runs = 0
    /\ dbFaults = 0
    /\ prevErr = {}
    /\ prevSuccess = <<>>
    /\ admin = AdminInit

\* One request from its arrival to the first calls of the loop.
NextRequest ==
    \E p \in SeqProcs :
       \/ ReceiveLists(p)
       \/ ReceiveKeys(p)
       \/ ReceiveUrl(p)
       \/ ReceivePadded(p)
       \/ ValidateInput(p)
       \/ GetApiKey(p)
       \/ NormalizeInput(p)
       \/ MakeTempDir(p)
       \/ GetRecord(p)
       \/ CreateRecord(p)
       \/ DownloadOk(p)
       \/ DownloadFail(p)

SpecRequest == InitRequest /\ [][NextRequest]_vars

(* ------------------------------- C16 ---------------------------------- *)

\* The items of a list field, none for an absent one.
Items(l) == IF l.given THEN l.items ELSE <<>>

\* All the entries of a request, videos first, then video_ids, then video_urls.
Entries(request) ==
    Items(request.videos) \o Items(request.video_ids) \o Items(request.video_urls)

\* The request has no entry in any list, or no key in request and environment.
Invalid(r) ==
    \/ Len(Entries(r.request)) = 0
    \/ r.request.deepgram_api_key \in {NULL, ""} /\ r.environ \in {NULL, ""}

\* C16: a transcribe_videos request whose three lists are all absent or empty,
\* or that has no key in the request and none in the environment, is rejected
\* before any record-store read or write and before any acquisition or
\* transcription call; the record store is unchanged.
C16_InvalidRequestRejectedFirst ==
    \A p \in SeqProcs :
       run[p].pc # "idle" /\ Invalid(run[p]) =>
          /\ run[p].pc \in {"validate", "api_key", "rejected"}
          /\ run[p].db_record = Unbound
          /\ db = run[p].db0
          /\ run[p].dl_calls = {}
          /\ run[p].tr_calls = {}
          /\ files = {}
          /\ dirs = {}

\* A request with entries but without any key was rejected, the store holding
\* a record.
C16_Witness ==
    \E p \in SeqProcs :
       /\ run[p].pc = "rejected"
       /\ Len(Entries(run[p].request)) > 0
       /\ run[p].request.deepgram_api_key = NULL
       /\ run[p].environ = NULL
       /\ db # <<>>
       /\ db = run[p].db0

(* ------------------------------- C17 ---------------------------------- *)

\* normalize_video_input has just returned the pairs of r's request.
Normalized(r) == r.pc = "mkdtemp"

\* The position of the first of the identifiers ids that equals video_id.
FirstOccurrence(ids, video_id) ==
    CHOOSE k \in 1..Len(ids) :
       ids[k] = video_id /\ \A j \in 1..(k - 1) : ids[j] # video_id

\* C17: normalize_video_input returns pairs with pairwise distinct identifiers,
\* holding exactly the identifiers extract_video_id yields over all entries,
\* ordered by first occurrence in the concatenation videos, video_ids,
\* video_urls, each pair keeping the first input string that gave its identifier.
C17_NormalizeKeepsFirstOccurrences ==
    \A p \in SeqProcs :
       Normalized(run[p]) =>
          LET entries == Entries(run[p].request)
              ids == [k \in 1..Len(entries) |-> extract_video_id(entries[k])]
              pairs == run[p].pairs
          IN  /\ \A i, j \in 1..Len(pairs) : i # j => pairs[i][1] # pairs[j][1]
              /\ {pairs[i][1] : i \in 1..Len(pairs)} = {ids[k] : k \in 1..Len(ids)}
              /\ \A i, j \in 1..Len(pairs) :
                    i < j => FirstOccurrence(ids, pairs[i][1])
                                < FirstOccurrence(ids, pairs[j][1])
              /\ \A i \in 1..Len(pairs) :
                    pairs[i][2] = entries[FirstOccurrence(ids, pairs[i][1])]

\* A request with entries in videos and in video_ids, one identifier given
\* twice: two pairs for three entries, the first one keeping a URL.
C17_Witness ==
    \E p \in SeqProcs :
       /\ Normalized(run[p])
       /\ NonEmpty(run[p].request.videos)
       /\ NonEmpty(run[p].request.video_ids)
       /\ Len(Entries(run[p].request)) = 3
       /\ Len(run[p].pairs) = 2
       /\ run[p].pairs[1][2] # run[p].pairs[1][1]
       /\ run[p].pairs[1][2] = run[p].request.videos.items[1]

(* ------------------------------- C18 ---------------------------------- *)

\* A bare identifier: not empty, no URL character, no blank.
Bare(s) ==
    /\ s # <<>>
    /\ \A i \in 1..Len(s) : s[i] \notin UrlChars \cup Whitespace

\* The entries are a bare identifier and the short URL around it, nothing else.
BareAndShortUrl(entries, b) ==
    /\ Bare(b)
    /\ {entries[k] : k \in 1..Len(entries)} = {b, Https \o YoutuBe \o b}

\* C18 as stated: for a batch holding a bare identifier and a short URL that
\* embeds it (as "abc" and "https://youtu.be/abc"), the normalized list has
\* exactly one entry, and its identifier is the bare identifier.
C18_BareAndShortUrlAreOne ==
    \A p \in SeqProcs :
       Normalized(run[p]) =>
          \A b \in Inputs :
             BareAndShortUrl(Entries(run[p].request), b) =>
                /\ Len(run[p].pairs) = 1
                /\ run[p].pairs[1][1] = b

\* C18 for identifiers the patterns recognize: for a batch holding a bare
\* identifier of exactly 11 characters of [a-zA-Z0-9_-] and a short URL that
\* embeds it, the normalized list has exactly one entry, and its identifier is
\* the bare identifier.
C18_ElevenCharIdAndShortUrlAreOne ==
    \A p \in SeqProcs :
       Normalized(run[p]) =>
          \A b \in Inputs :
             /\ BareAndShortUrl(Entries(run[p].request), b)
             /\ Len(b) = IdLen
             /\ IdAt(b, 1)
             => /\ Len(run[p].pairs) = 1
                /\ run[p].pairs[1][1] = b

\* The short URL comes first, the 11-character identifier second: one pair.
C18_Witness ==
    \E p \in SeqProcs :
       /\ Normalized(run[p])
       /\ Entries(run[p].request) = <<ShortUrlId, BareId>>
       /\ run[p].pairs = <<<<BareId, ShortUrlId>>>>

(* ------------------------------- C19 ---------------------------------- *)

\* The 11 characters that follow the prefix of shape n in u.
Embedded(n, u) ==
    SubSeq(u, Len(ShapePrefix[n]) + 1, Len(ShapePrefix[n]) + IdLen)

\* C19: for every 11-character identifier v over letters, digits, '_' and '-',
\* extract_video_id returns v for each recognized URL shape around v:
\* watch?v=, youtu.be/, /embed/, /v/, m.youtube.com/watch?v=, and watch URLs
\* in which v is not the first query parameter.
C19_EveryShapeYieldsTheId ==
    \A p \in SeqProcs :
       Normalized(run[p]) =>
          \A k \in 1..Len(Entries(run[p].request)) : \A n \in Shapes :
             LET u == Entries(run[p].request)[k]
                 v == Embedded(n, u)
             IN  /\ Len(u) >= Len(ShapePrefix[n]) + IdLen
                 /\ IdAt(v, 1)
                 /\ u = UrlShape(n, v)
                 => /\ extract_video_id(u) = v
                    /\ \E i \in 1..Len(run[p].pairs) : run[p].pairs[i][1] = v

\* A watch URL with the identifier as second parameter and one more after it
\* was normalized to the identifier.
C19_Witness ==
    \E p \in SeqProcs : \E v \in SampleIds :
       /\ Normalized(run[p])
       /\ v[1] = "_"
       /\ v[IdLen] = "-"
       /\ Entries(run[p].request) = <<UrlShape(7, v)>>
       /\ run[p].pairs = <<<<v, UrlShape(7, v)>>>>

(* ------------------------------- C20 ---------------------------------- *)

\* C20 as stated: for every input string that holds none of ? & = /,
\* extract_video_id returns the input unchanged.
C20_BareInputUnchanged ==
    \A p \in SeqProcs :
       Normalized(run[p]) =>
          \A k \in 1..Len(Entries(run[p].request)) :
             LET u == Entries(run[p].request)[k] IN
             (\A i \in 1..Len(u) : u[i] \notin UrlChars) => extract_video_id(u) = u

\* t is s without the blanks at its two ends.
IsTrimmed(s, t) ==
    \E a, b \in 0..Len(s) :
       /\ a + b <= Len(s)
       /\ t = SubSeq(s, a + 1, Len(s) - b)
       /\ \A i \in 1..a : s[i] \in Whitespace
       /\ \A i \in (Len(s) - b + 1)..Len(s) : s[i] \in Whitespace
       /\ t # <<>> => t[1] \notin Whitespace /\ t[Len(t)] \notin Whitespace

\* C20 with the trimming the function does first: for every input string that
\* holds none of ? & = /, extract_video_id returns the input without its
\* leading and trailing whitespace, so unchanged when it has none.
C20_BareInputTrimmed ==
    \A p \in SeqProcs :
       Normalized(run[p]) =>
          \A k \in 1..Len(Entries(run[p].request)) :
             LET u == Entries(run[p].request)[k] IN
             (\A i \in 1..Len(u) : u[i] \notin UrlChars) =>
                /\ IsTrimmed(u, extract_video_id(u))
                /\ \E i \in 1..Len(run[p].pairs) :
                      IsTrimmed(u, run[p].pairs[i][1])

\* An identifier with blanks around it was normalized to the identifier.
C20_Witness ==
    \E p \in SeqProcs :
       /\ Normalized(run[p])
       /\ Entries(run[p].request) = <<Padded>>
       /\ run[p].pairs = <<<<BareShort, Padded>>>>

(* ------------------- authentication and admin endpoints --------------- *)

\* The variables of the transcription workflow.
pipeline == <<db, files, dirs, run, runs, dbFaults, prevErr, prevSuccess>>

\* SELECT password_hash FROM admin_users WHERE username = ?; verify_password.
authenticate_user(a, username, password) ==
    /\ username \in DOMAIN a.admin_users
    /\ a.admin_users[username] = hash_password(password)

\* active_sessions[token] = username, for a token no earlier call returned.
create_session(a, username) ==
    [a EXCEPT !.active_sessions =
                  [t \in DOMAIN @ \cup {a.issued + 1} |->
                      IF t = a.issued + 1 THEN username ELSE @[t]],
              !.issued = @ + 1]

\* active_sessions.get(token)
get_user_from_token(a, token) ==
    IF token \in DOMAIN a.active_sessions THEN a.active_sessions[token] ELSE NULL

\* if token in active_sessions: del active_sessions[token]
delete_session(a, token) ==
    [a EXCEPT !.active_sessions = [t \in DOMAIN @ \ {token} |-> @[t]]]

\* UPDATE admin_users SET password_hash = ? WHERE username = ?
update_user_password(a, username, new_password) ==
    IF username \in DOMAIN a.admin_users
    THEN [a EXCEPT !.admin_users[username] = hash_password(new_password)]
    ELSE a

\* A dependency that takes every bearer token for a session of "admin".
authenticate_any_token(a, c) ==
    IF c.basic_credentials.given
    THEN IF authenticate_user(a, c.basic_credentials.username,
                              c.basic_credentials.password)
            /\ Truthy(c.basic_credentials.username)
         THEN c.basic_credentials.username
         ELSE NULL
    ELSE IF c.token # NoToken
    THEN IF Truthy(get_user_from_token(a, c.token))
         THEN get_user_from_token(a, c.token)
         ELSE "admin"
    ELSE NULL

\* The user a request is admitted as, or NULL where HTTPException(401) is
\* raised: Basic credentials first, the bearer token only without them.
authenticate_api_request(a, c) ==
    IF c.basic_credentials.given
    THEN IF authenticate_user(a, c.basic_credentials.username,
                              c.basic_credentials.password)
            /\ Truthy(c.basic_credentials.username)
         THEN c.basic_credentials.username
         ELSE NULL
    ELSE IF c.token # NoToken
    THEN IF Truthy(get_user_from_token(a, c.token))
         THEN get_user_from_token(a, c.token)
         ELSE NULL
    ELSE NULL

\* The credentials requests carry: none, Basic credentials, a bearer token,
\* or Basic credentials together with a bearer token.
CredentialSet ==
    {NoCredentials}
    \cup {Credentials(Basic(u, pw), NoToken) : u \in Usernames, pw \in Passwords}
    \cup {Credentials(NoBasic, t) : t \in Tokens}
    \cup {Credentials(Basic("admin", "secret2"), 1)}

\* The answer of a handler, with the state it leaves.
Answer(a, op, status, token, target, value) ==
    [a EXCEPT !.last = Response(op, status, NoCredentials, token, target, value)]

\* A protected endpoint: the dependency runs first, then the handler; a
\* rejected request never reaches the handler, whatever its body holds.
Protected(a, c, op, handled) ==
    IF authenticate_api_request(a, c) = NULL
    THEN [a EXCEPT !.last = Response(op, 401, c, NoToken, NULL, NULL)]
    ELSE [handled EXCEPT !.last.credentials = c]

\* login: a session for the user whose password verifies, 401 otherwise.
login(a, username, password) ==
    IF authenticate_user(a, username, password)
    THEN Answer(create_session(a, username), "login", 200, a.issued + 1,
                username, NULL)
    ELSE Answer(a, "login", 401, NoToken, username, NULL)

Login ==
    /\ admin.issued < MaxTokens
    /\ \E username \in Usernames, password \in Passwords :
         admin' = login(admin, username, password)
    /\ UNCHANGED pipeline

\* logout: delete_session(request.token); no authentication.
logout(a, token) == Answer(delete_session(a, token), "logout", 200, token, NULL, NULL)

Logout ==
    /\ \E token \in Tokens : admin' = logout(admin, token)
    /\ UNCHANGED pipeline

\* The body of a change-password request.
ChangePasswordRequest(username, current_password, new_password) ==
    [username |-> username, current_password |-> current_password,
     new_password |-> new_password]

\* The tokens of the sessions of a user.
tokens_to_delete(a, target_username) ==
    {t \in DOMAIN a.active_sessions : a.active_sessions[t] = target_username}

\* A change_password that leaves the sessions of the user in place.
change_password_keeping_sessions(a, user, request, updated) ==
    LET target_username == IF user = "api_user" THEN request.username ELSE user
    IN  IF user = "api_user" /\ ~Truthy(request.username)
        THEN Answer(a, "change_password", 400, NoToken, NULL, NULL)
        ELSE IF ~authenticate_user(a, target_username, request.current_password)
        THEN Answer(a, "change_password", 401, NoToken, target_username, NULL)
        ELSE IF Len(request.new_password) < MinPasswordLen
        THEN Answer(a, "change_password", 400, NoToken, target_username, NULL)
        ELSE IF updated
        THEN Answer(update_user_password(a, target_username, request.new_password),
                    "change_password", 200, NoToken, target_username, NULL)
        ELSE Answer(a, "change_password", 500, NoToken, target_username, NULL)

\* change_password: the target is the caller, or request.username for the
\* caller "api_user"; the current password is verified, the new one is at
\* least MinPasswordLen long; a successful update deletes the target's
\* sessions. updated is what update_user_password returned.
change_password(a, user, request, updated) ==
    LET target_username == IF user = "api_user" THEN request.username ELSE user
    IN  IF user = "api_user" /\ ~Truthy(request.username)
        THEN Answer(a, "change_password", 400, NoToken, NULL, NULL)
        ELSE IF ~authenticate_user(a, target_username, request.current_password)
        THEN Answer(a, "change_password", 401, NoToken, target_username, NULL)
        ELSE IF Len(request.new_password) < MinPasswordLen
        THEN Answer(a, "change_password", 400, NoToken, target_username, NULL)
        ELSE IF updated
        THEN LET a1 == update_user_password(a, target_username,
                                            request.new_password)
             IN  Answer([a1 EXCEPT !.active_sessions =
                            [t \in DOMAIN @ \ tokens_to_delete(a1, target_username)
                                |-> @[t]]],
                        "change_password", 200, NoToken, target_username, NULL)
        ELSE Answer(a, "change_password", 500, NoToken, target_username, NULL)

ChangePassword ==
    /\ \E c \in CredentialSet :
         IF authenticate_api_request(admin, c) = NULL
         THEN admin' = Protected(admin, c, "change_password", admin)
         ELSE \E username \in Usernames \cup {NULL}, current_password \in Passwords,
                 new_password \in Passwords \cup {"short"}, updated \in BOOLEAN :
                admin' = Protected(admin, c, "change_password",
                            change_password(admin, authenticate_api_request(admin, c),
                               ChangePasswordRequest(username, current_password,
                                                     new_password),
                               updated))
    /\ UNCHANGED pipeline

\* INSERT OR REPLACE INTO admin_users / ON CONFLICT (username) DO UPDATE.
insert_or_replace_user(a, username, password_hash) ==
    [a EXCEPT !.admin_users =
        [u \in DOMAIN @ \cup {username} |->
            IF u = username THEN password_hash ELSE @[u]]]

\* create_user: CreateUserRequest validates the lengths (422), the insert
\* replaces the row of an existing username; stored is FALSE where the
\* statement raises something else than a uniqueness error.
create_user(a, username, password, stored) ==
    IF Len(username) < MinUsernameLen \/ Len(password) < MinPasswordLen
    THEN Answer(a, "create_user", 422, NoToken, username, NULL)
    ELSE IF stored
    THEN Answer(insert_or_replace_user(a, username, hash_password(password)),
                "create_user", 200, NoToken, username, NULL)
    ELSE Answer(a, "create_user", 500, NoToken, username, NULL)

CreateUser ==
    /\ \E c \in CredentialSet :
         IF authenticate_api_request(admin, c) = NULL
         THEN admin' = Protected(admin, c, "create_user", admin)
         ELSE \E username \in Usernames \cup {""},
                 password \in Passwords \cup {"short"}, stored \in BOOLEAN :
                admin' = Protected(admin, c, "create_user",
                                   create_user(admin, username, password, stored))
    /\ UNCHANGED pipeline

\* A delete_user that also ends the sessions of the deleted user.
delete_user_and_sessions(a, user, username, deleted) ==
    IF user # "api_user" /\ username = user
    THEN Answer(a, "delete_user", 400, NoToken, username, NULL)
    ELSE IF ~deleted
    THEN Answer(a, "delete_user", 500, NoToken, username, NULL)
    ELSE IF username \notin DOMAIN a.admin_users
    THEN Answer(a, "delete_user", 404, NoToken, username, NULL)
    ELSE Answer([a EXCEPT !.admin_users = [u \in DOMAIN @ \ {username} |-> @[u]],
                          !.active_sessions =
                              [t \in DOMAIN @ \ tokens_to_delete(a, username)
                                  |-> @[t]]],
                "delete_user", 200, NoToken, username, NULL)

\* delete_user: 400 for the caller's own name unless the caller is
\* "api_user", 404 where no row was deleted, 500 where the statement raises.
delete_user(a, user, username, deleted) ==
    IF user # "api_user" /\ username = user
    THEN Answer(a, "delete_user", 400, NoToken, username, NULL)
    ELSE IF ~deleted
    THEN Answer(a, "delete_user", 500, NoToken, username, NULL)
    ELSE IF username \notin DOMAIN a.admin_users
    THEN Answer(a, "delete_user", 404, NoToken, username, NULL)
    ELSE Answer([a EXCEPT !.admin_users = [u \in DOMAIN @ \ {username} |-> @[u]]],
                "delete_user", 200, NoToken, username, NULL)

DeleteUser ==
    /\ \E c \in CredentialSet :
         IF authenticate_api_request(admin, c) = NULL
         THEN admin' = Protected(admin, c, "delete_user", admin)
         ELSE \E username \in Usernames, deleted \in BOOLEAN :
                admin' = Protected(admin, c, "delete_user",
                            delete_user(admin, authenticate_api_request(admin, c),
                                        username, deleted))
    /\ UNCHANGED pipeline

\* return result['setting_value'] if result and result.get('setting_value')
\*        else None
get_setting(a, setting_key) ==
    IF setting_key \in DOMAIN a.settings /\ Truthy(a.settings[setting_key])
    THEN a.settings[setting_key]
    ELSE NULL

\* INSERT OR REPLACE INTO settings (setting_key, setting_value, updated_at)
set_setting(a, setting_key, setting_value) ==
    [a EXCEPT !.settings =
        [k \in DOMAIN @ \cup {setting_key} |->
            IF k = setting_key THEN setting_value ELSE @[k]]]

\* get_setting_endpoint: {"setting_key": setting_key, "value": value}
get_setting_endpoint(a, setting_key) ==
    Answer(a, "get_setting", 200, NoToken, setting_key, get_setting(a, setting_key))

GetSetting ==
    /\ \E c \in CredentialSet :
         IF authenticate_api_request(admin, c) = NULL
         THEN admin' = Protected(admin, c, "get_setting", admin)
         ELSE \E setting_key \in SettingKeys :
                admin' = Protected(admin, c, "get_setting",
                                   get_setting_endpoint(admin, setting_key))
    /\ UNCHANGED pipeline

\* set_setting_endpoint: 200 where set_setting returned True, 500 where the
\* statement raised and it returned False.
set_setting_endpoint(a, setting_key, value, stored) ==
    IF stored
    THEN Answer(set_setting(a, setting_key, value), "set_setting", 200, NoToken,
                setting_key, value)
    ELSE Answer(a, "set_setting", 500, NoToken, setting_key, value)

SetSetting ==
    /\ \E c \in CredentialSet :
         IF authenticate_api_request(admin, c) = NULL
         THEN admin' = Protected(admin, c, "set_setting", admin)
         ELSE \E setting_key \in SettingKeys, value \in SettingValues,
                 stored \in BOOLEAN :
                admin' = Protected(admin, c, "set_setting",
                            set_setting_endpoint(admin, setting_key, value, stored))
    /\ UNCHANGED pipeline

\* process_channel_videos behind its dependency: an admitted request starts
\* its run, a rejected one leaves the workflow as it is.
ProcessChannel(p) ==
    /\ run[p].pc = "idle"
    /\ runs < MaxRuns
    /\ \E c \in CredentialSet, batch \in ChannelLists :
         /\ admin' = Protected(admin, c, "process_channel_videos",
                               Answer(admin, "process_channel_videos", 200,
                                      NoToken, NULL, NULL))
         /\ IF authenticate_api_request(admin, c) = NULL
            THEN UNCHANGED pipeline
            ELSE /\ run' = Accept(p, [IdleRun EXCEPT !.pc = "ch_get",
                                                     !.kind = "channel",
                                                     !.video_list = batch,
                                                     !.idx = 1,
                                                     !.temp_dir = runs + 1])
                 /\ runs' = runs + 1
                 /\ dirs' = dirs \cup {runs + 1}
                 /\ UNCHANGED <<db, files, dbFaults, prevErr, prevSuccess>>

\* The user and session endpoints of one server process, one request at a
\* time, and the start of a channel run behind the dependency.
NextAdmin ==
    \/ Login
    \/ Logout
    \/ ChangePassword
    \/ CreateUser
    \/ DeleteUser
    \/ \E p \in SeqProcs : ProcessChannel(p)

SpecAdmin == Init /\ [][NextAdmin]_vars

\* The settings endpoints, with the sessions that admit their requests.
NextSettings ==
    \/ Login
    \/ Logout
    \/ GetSetting
    \/ SetSetting

SpecSettings == Init /\ [][NextSettings]_vars

(* ------------------------- the scraper script ------------------------- *)

\* CHANNEL_NAME of the script, and the ids of the rows that carry it in the
\* column channel_name. No statement of main.py or database.py is called with
\* a channel_name, so these rows are the ones imported into the table.
CHANNEL_NAME == "MrBallen"
Imported == {"vidA"}

\* AUDIO_DIR of the script, a directory apart from every temporary directory.
AUDIO_DIR == MaxRuns + 1

\* The script that runs beside the server.
Scraper == "p2"

\* SELECT ... WHERE channel_name = ? AND (audio_file_path IS NULL OR
\* audio_file_path = '') ORDER BY created_at DESC LIMIT 2; one row at most
\* carries the channel name.
fetch_mrballen_videos(d) ==
    IF \E v \in Imported : v \in DOMAIN d /\ d[v].audio_file_path = NoPath
    THEN <<CHOOSE v \in Imported : v \in DOMAIN d /\ d[v].audio_file_path = NoPath>>
    ELSE <<>>

\* UPDATE video_transcriptions SET ... WHERE video_id = ?: with a path, the
\* path and status = "processed"; without one, only the scraped columns.
update_video_in_db(d, video_id, audio_file_path) ==
    IF video_id \notin DOMAIN d \/ audio_file_path = NoPath
    THEN d
    ELSE [d EXCEPT ![video_id].audio_file_path = audio_file_path,
                   ![video_id].status = "processed"]

\* main(): videos = fetch_mrballen_videos(); nothing to do without videos.
ScFetch(p) ==
    /\ run[p].pc = "idle"
    /\ fetch_mrballen_videos(db) # <<>>
    /\ run' = [run EXCEPT ![p] = [IdleRun EXCEPT !.kind = "scraper",
                                                 !.pc = "sc_download",
                                                 !.video_list = fetch_mrballen_videos(db),
                                                 !.idx = 1]]
    /\ UNCHANGED <<admin, db, files, dirs, runs, dbFaults, prevErr, prevSuccess>>

\* download_audio(video_id, video_url, driver) returns AUDIO_DIR/<id>.mp3.
ScDownloadOk(p) ==
    /\ run[p].pc = "sc_download"
    /\ files' = files \cup {AudioPath(AUDIO_DIR, Cur(p))}
    /\ run' = [run EXCEPT ![p].pc = "sc_update",
                          ![p].audio_file_path = AudioPath(AUDIO_DIR, Cur(p))]
    /\ UNCHANGED <<admin, db, dirs, runs, dbFaults, prevErr, prevSuccess>>

\* download_audio returns None.
ScDownloadFail(p) ==
    /\ run[p].pc = "sc_download"
    /\ run' = [run EXCEPT ![p].pc = "sc_update", ![p].audio_file_path = NoPath]
    /\ UNCHANGED <<admin, db, files, dirs, runs, dbFaults, prevErr, prevSuccess>>

\* update_video_in_db(video_id, selenium_data, audio_file_path), then the
\* next video of the list or the end of main().
ScUpdate(p) ==
    /\ run[p].pc = "sc_update"
    /\ db' = update_video_in_db(db, Cur(p), run[p].audio_file_path)
    /\ run' = [run EXCEPT ![p] = IF run[p].idx < Len(run[p].video_list)
                                 THEN [@ EXCEPT !.pc = "sc_download",
                                                !.idx = @ + 1,
                                                !.audio_file_path = NoPath]
                                 ELSE IdleRun]
    /\ UNCHANGED <<admin, files, dirs, runs, dbFaults, prevErr, prevSuccess>>

ScStep(p) ==
    \/ ScFetch(p)
    \/ ScDownloadOk(p)
    \/ ScDownloadFail(p)
    \/ ScUpdate(p)

\* The table holds one imported row of the channel, waiting for its audio.
InitScraper ==
    /\ db = create_video_record(<<>>, "vidA", "vidA", "pending")
    /\ files = {}
    /\ dirs = {}
    /\ run = [p \in Procs |-> IdleRun]
    /\ runs = 0
    /\ dbFaults = 0
    /\ prevErr = {}
    /\ prevSuccess = <<>>
    /\ admin = AdminInit

\* The server handles one single-item request at a time; the script runs
\* beside it on the same table.
NextScraper ==
    \/ \E p \in SeqProcs :
          \/ SubmitOne(p)
          \/ GetRecord(p)
          \/ CreateRecord(p)
          \/ DownloadOk(p)
          \/ DownloadFail(p)
          \/ SetPath(p)
          \/ TranscribeOk(p)
          \/ TranscribeFail(p)
          \/ SetSuccess(p)
          \/ RemoveOk(p)
          \/ RemoveFail(p)
          \/ ClearPath(p)
          \/ Except(p)
          \/ ExceptUpdate(p)
          \/ StoreFaultInTry(p)
          \/ StoreFaultInRemove(p)
          \/ StoreFaultInHandler(p)
          \/ Cleanup(p)
          \/ Respond(p)
          \/ ChSubmit(p)
          \/ ChGetRecord(p)
          \/ ChCreateRecord(p)
          \/ ChDownloadOk(p)
          \/ ChDownloadFail(p)
          \/ ChSetPath(p)
          \/ ChTranscribeOk(p)
          \/ ChTranscribeFail(p)
          \/ ChSetSuccess(p)
          \/ ChRemoveOk(p)
          \/ ChRemoveFail(p)
          \/ ChClearPath(p)
          \/ ChExceptRead(p)
          \/ ChExceptWrite(p)
          \/ ChExceptUpdate(p)
          \/ ChStoreFaultInTry(p)
          \/ ChStoreFaultInRemove(p)
          \/ ChStoreFaultInHandler(p)
          \/ ChCleanup(p)
          \/ ChRespond(p)
    \/ ScStep(Scraper)

SpecScraper == InitScraper /\ [][NextScraper]_vars

\* C21: in every reachable state, the status of every record is one of
\* processing, success, failed, pending, rate_limited.
C21_StatusInDomain ==
    \A v \in DOMAIN db :
        db[v].status \in {"processing", "success", "failed", "pending", "rate_limited"}

(* ------------------------------ C22 ----------------------------------- *)

\* The Basic credentials of c verify against a stored admin user, or its
\* bearer token is in the session map.
Verifies(a, c) ==
    \/ /\ c.basic_credentials.given
       /\ c.basic_credentials.username \in DOMAIN a.admin_users
       /\ a.admin_users[c.basic_credentials.username]
             = hash_password(c.basic_credentials.password)
    \/ c.token \in DOMAIN a.active_sessions

\* The endpoints behind authenticate_api_request.
ProtectedOps ==
    {"change_password", "create_user", "delete_user", "process_channel_videos",
     "get_setting", "set_setting"}

\* The step answers a request to a protected endpoint.
ProtectedStep == admin'.last.op \in ProtectedOps

Bearer(t) == Credentials(NoBasic, t)

\* The step is delete_session on t through logout, or a change_password that
\* succeeded for user u.
EndsSession(t, u) ==
    \/ admin'.last.op = "logout" /\ admin'.last.token = t
    \/ /\ admin'.last.op = "change_password"
       /\ admin'.last.status = 200
       /\ admin'.last.target = u

\* C23: the token a successful login returns authenticates as the user who
\* logged in, and a token that authenticates as U still authenticates as U
\* after every step that is neither a logout of that token nor a successful
\* change_password for U.
C23_TokenLivesUntilEnded ==
    [][/\ (admin'.last.op = "login" /\ admin'.issued = admin.issued + 1)
            => authenticate_api_request(admin', Bearer(admin'.last.token))
                  = admin'.last.target
       /\ \A t \in DOMAIN admin.active_sessions :
            ~EndsSession(t, admin.active_sessions[t])
               => authenticate_api_request(admin', Bearer(t))
                     = admin.active_sessions[t]]_vars

\* A user was deleted while a session of that user is in the map.
C23_Witness ==
    /\ admin.last.op = "delete_user"
    /\ admin.last.status = 200
    /\ \E t \in DOMAIN admin.active_sessions :
         /\ admin.active_sessions[t] = admin.last.target
         /\ authenticate_api_request(admin, Bearer(t)) = admin.last.target

(* ------------------------------ C26 ----------------------------------- *)

\* The step is a change_password that succeeded.
PasswordChanged ==
    admin'.last.op = "change_password" /\ admin'.last.status = 200

\* C26: after change_password succeeds for user U, no token of the session
\* map maps to U, and every token that mapped to another user is still in
\* the map and maps to the same user.
C26_ChangePasswordEndsExactlyTheUsersSessions ==
    [][PasswordChanged
          => /\ \A t \in DOMAIN admin'.active_sessions :
                  admin'.active_sessions[t] # admin'.last.target
             /\ \A t \in DOMAIN admin.active_sessions :
                  admin.active_sessions[t] # admin'.last.target
                     => /\ t \in DOMAIN admin'.active_sessions
                        /\ admin'.active_sessions[t] = admin.active_sessions[t]]_vars

\* A password was changed; a session of the user is gone, one of another
\* user is in the map.
C26_Witness ==
    /\ admin.last.op = "change_password"
    /\ admin.last.status = 200
    /\ \E t \in 1..admin.issued : t \notin DOMAIN admin.active_sessions
    /\ \E t \in DOMAIN admin.active_sessions :
         admin.active_sessions[t] # admin.last.target

(* ------------------------------ C27 ----------------------------------- *)

\* The step is a create_user that was admitted, passed the validation of its
\* body and met no store error, for a username that has a row.
CreatesExistingUser ==
    /\ admin'.last.op = "create_user"
    /\ admin'.last.status \notin {401, 422, 500}
    /\ admin'.last.target \in DOMAIN admin.admin_users

\* C27: create_user called with a username that already exists is rejected
\* with 400, and the stored password hash of that user is unchanged.
C27_ExistingUsernameRejected ==
    [][CreatesExistingUser
          => /\ admin'.last.status = 400
             /\ admin'.admin_users[admin'.last.target]
                   = admin.admin_users[admin'.last.target]]_vars

(* ------------------------------ C29 ----------------------------------- *)

\* The step is a set_setting on key k that returned True.
SetsKey(k) ==
    /\ admin'.last.op = "set_setting"
    /\ admin'.last.status = 200
    /\ admin'.last.target = k

\* C29: after set_setting(k, v) returns True, get_setting(k) returns v, and it
\* returns the same value after every step that is not a set_setting on k;
\* a set_setting on k leaves the settings under the other keys as they were.
C29_GetReturnsLastSet ==
    [][\A k \in SettingKeys :
          IF SetsKey(k)
          THEN /\ get_setting(admin', k) = admin'.last.value
               /\ \A o \in SettingKeys \ {k} :
                     get_setting(admin', o) = get_setting(admin, o)
          ELSE get_setting(admin', k) = get_setting(admin, k)]_vars

(* ------------------------------ C25 ----------------------------------- *)

\* C25: once a record has status = success and a non-empty transcript, no
\* step of any transcribe_videos or process_channel_videos run changes its
\* status or its transcript, also when two runs on the same identifier
\* interleave.
C25_SuccessIsAbsorbing ==
    [][\A v \in DOMAIN db :
          (db[v].status = "success" /\ Truthy(db[v].transcript))
             => /\ db'[v].status = "success"
                /\ db'[v].transcript = db[v].transcript]_vars

(* ------------------------------ C24 ----------------------------------- *)

\* What a finished single-item run reported for its item, and whether the
\* file it acquired is still in its temporary directory.
Outcome(r) ==
    [reported |->
        IF r.kind = "channel"
        THEN [status |-> r.video_results[1].status,
              transcript |-> r.video_results[1].transcript,
              error |-> r.video_results[1].error]
        ELSE IF r.success_results # <<>>
        THEN [status |-> "success", transcript |-> r.success_results[1].transcript,
              error |-> NULL]
        ELSE [status |-> "failed", transcript |-> NULL,
              error |-> r.error_results[1].error],
     acquired |-> r.dl_calls # {},
     transcribed |-> r.tr_calls # {},
     file_left |-> \E f \in files : f.dir = r.temp_dir]

\* The record of the item of a single-item run, without the names in its path.
RecordOf(r) ==
    LET row == db[r.video_list[1]]
    IN  [status |-> row.status, transcript |-> row.transcript,
         error_message |-> row.error_message,
         has_path |-> row.audio_file_path # NoPath]

\* p ran transcribe_videos and q ran process_channel_videos, each on one
\* video that had no record, as the first two runs, no store call raised, and
\* both are past their loop.
SameStart(p, q) ==
    /\ run[p].kind = "transcribe" /\ run[p].pc = "cleanup"
    /\ run[q].kind = "channel" /\ run[q].pc = "ch_cleanup"
    /\ {run[p].temp_dir, run[q].temp_dir} = {1, 2}
    /\ run[p].video_list[1] # run[q].video_list[1]
    /\ dbFaults = 0

\* C24: a transcribe_videos run and a process_channel_videos run that start
\* from the same store (no record of their video) and meet the same outcomes
\* of acquisition, transcription and file removal leave their records in the
\* same state: status, transcript, audio_file_path set or not, error_message.
C24_ChannelMatchesTranscribe ==
    \A p, q \in Procs :
        (SameStart(p, q) /\ Outcome(run[p]) = Outcome(run[q]))
           => RecordOf(run[p]) = RecordOf(run[q])

(* ----------------------- channels of several videos ------------------- *)

\* The video lists of a channel: up to MaxBatch entries; the extraction does
\* not remove an identifier that occurs twice.
ChannelBatches == UNION {[1..n -> VideoIds] : n \in 1..MaxBatch}

\* video_list, temp_dir, success_count = 0, failed_count = 0, video_results = []
ChSubmitList(p) ==
    /\ run[p].pc = "idle"
    /\ runs < MaxRuns
    /\ \E batch \in ChannelBatches :
         run' = Accept(p, [IdleRun EXCEPT !.pc = "ch_get", !.kind = "channel",
                                          !.video_list = batch, !.idx = 1,
                                          !.temp_dir = runs + 1])
    /\ runs' = runs + 1
    /\ dirs' = dirs \cup {runs + 1}
    /\ UNCHANGED <<admin, db, files, dbFaults, prevErr, prevSuccess>>

\* Channel requests handled one at a time.
NextChannel ==
    \E p \in SeqProcs :
       \/ ChSubmitList(p)
       \/ ChGetRecord(p)
       \/ ChCreateRecord(p)
       \/ ChDownloadOk(p)
       \/ ChDownloadFail(p)
       \/ ChSetPath(p)
       \/ ChTranscribeOk(p)
       \/ ChTranscribeFail(p)
       \/ ChSetSuccess(p)
       \/ ChRemoveOk(p)
       \/ ChRemoveFail(p)
       \/ ChClearPath(p)
       \/ ChExceptRead(p)
       \/ ChExceptWrite(p)
       \/ ChExceptUpdate(p)
       \/ ChStoreFaultInTry(p)
       \/ ChStoreFaultInRemove(p)
       \/ ChStoreFaultInHandler(p)
       \/ ChCleanup(p)
       \/ ChRespond(p)

SpecChannel == Init /\ [][NextChannel]_vars

(* ------------------------------ C28 ----------------------------------- *)

\* The entries of video_results with the given status.
WithStatus(r, status) ==
    {i \in 1..Len(r.video_results) : r.video_results[i].status = status}

\* C28: in every response process_channel_videos returns, success_count +
\* failed_count = processed_videos = total_videos = the number of
\* video_results entries, and the i-th entry is the i-th video of the list,
\* counted once: as success in success_count or as failed in failed_count.
C28_EveryVideoCountedOnce ==
    \A p \in Procs :
        run[p].pc = "ch_returned"
           => LET r == run[p]
              IN  /\ Len(r.video_results) = Len(r.video_list)
                  /\ r.success_count + r.failed_count = Len(r.video_results)
                  /\ \A i \in 1..Len(r.video_list) :
                        r.video_results[i].video_id = r.video_list[i]
                  /\ r.success_count = Cardinality(WithStatus(r, "success"))
                  /\ r.failed_count = Cardinality(WithStatus(r, "failed"))

\* A response for two videos, one counted as success and one as failed.
C28_Witness ==
    \E p \in Procs :
        /\ run[p].pc = "ch_returned"
        /\ Len(run[p].video_list) = MaxBatch
        /\ run[p].success_count >= 1
        /\ run[p].failed_count >= 1

(* ------------------------------ C30 ----------------------------------- *)

\* The entry takes the bare-identifier path, the pattern-match path or the
\* fallback path of extract_video_id.
PathOf(u) ==
    LET s == strip(u) IN
    IF ~HasUrlChar(s) THEN "bare"
    ELSE IF \E n \in 1..3 : PatternMatch(n, s) # NoMatch THEN "pattern"
    ELSE "fallback"

\* C30: extract_video_id is idempotent. For every entry s of a request,
\* extract_video_id(extract_video_id(s)) = extract_video_id(s), and every
\* identifier normalize_video_input returned is its own identifier.
C30_ExtractIsIdempotent ==
    \A p \in SeqProcs :
       Normalized(run[p]) =>
          /\ \A k \in 1..Len(Entries(run[p].request)) :
                LET id == extract_video_id(Entries(run[p].request)[k])
                IN  extract_video_id(id) = id
          /\ \A i \in 1..Len(run[p].pairs) :
                extract_video_id(run[p].pairs[i][1]) = run[p].pairs[i][1]

\* A request whose entries took the three paths was normalized.
C30_Witness ==
    \E p \in SeqProcs :
       /\ Normalized(run[p])
       /\ {PathOf(Entries(run[p].request)[k]) :
              k \in 1..Len(Entries(run[p].request))}
             = {"bare", "pattern", "fallback"}
       /\ \A i \in 1..Len(run[p].pairs) :
             extract_video_id(run[p].pairs[i][1]) = run[p].pairs[i][1]

====
